---- MODULE Spec2Model ----
(***************************************************************************)
(* SheetBridge: the write path (append, bulk append) over the durable     *)
(* store (rows, idempotency cache, dead-letter queue) and the DLQ retry    *)
(* worker, as state machines translated from src/sheetbridge.              *)
(*                                                                         *)
(* Python values are encoded as records [t, v]: t is the Python type and   *)
(* v the value's text, so that str(), int() and float() are conversions    *)
(* and 1 differs from "1".  A dict is a function from its keys.  A string  *)
(* the code builds with an f-string is the tuple of its pieces.            *)
(***************************************************************************)
EXTENDS Integers, Sequences, FiniteSets, TLC

(***************************************************************************)
(* Bounds of the model.                                                    *)
(***************************************************************************)
MaxRows == 2
MaxDlq == 2
MaxRemote == 2
MaxBulkLen == 2
MaxDlqInit == 3
MaxBatch == 3
MaxConcurrency == 2
Ttl == 0
BulkMaxItems == 2
BatchSize == 1

(***************************************************************************)
(* Python values.                                                          *)
(***************************************************************************)
None == [t |-> "null", v |-> "None"]

PyStr(s) == [t |-> "str", v |-> s]

PyInt(s) == [t |-> "int", v |-> s]

PyFloat(s) == [t |-> "float", v |-> s]

PyBool(b) == [t |-> "bool", v |-> IF b THEN "True" ELSE "False"]

\* Texts int() parses, and the text of float(int(text)).
IntTexts == {"0", "1", "2", "5", "7"}

FloatText(s) == CASE s = "0" -> "0.0" [] s = "1" -> "1.0" [] s = "2" -> "2.0"
                  [] s = "5" -> "5.0" [] s = "7" -> "7.0" [] OTHER -> s

FloatTexts == {FloatText(s) : s \in IntTexts}

IntOfFloatText(s) == CHOOSE i \in IntTexts : FloatText(i) = s

\* dict.get(name): None for an absent key.
Get(row, name) == IF name \in DOMAIN row THEN row[name] ELSE None

\* str(value) of a non-None value.
StrOf(val) == val.v

Raise == [ok |-> FALSE, val |-> None]

Return(val) == [ok |-> TRUE, val |-> val]

ToInt(val) ==
    CASE val.t = "int" -> Return(val)
      [] val.t = "bool" -> Return(PyInt(IF val.v = "True" THEN "1" ELSE "0"))
      [] val.t = "float" -> Return(PyInt(IntOfFloatText(val.v)))
      [] val.t = "str" -> IF val.v \in IntTexts THEN Return(PyInt(val.v)) ELSE Raise
      [] OTHER -> Raise

ToFloat(val) ==
    CASE val.t = "float" -> Return(val)
      [] val.t = "int" -> Return(PyFloat(FloatText(val.v)))
      [] val.t = "bool" -> Return(PyFloat(IF val.v = "True" THEN "1.0" ELSE "0.0"))
      [] val.t = "str" ->
            IF val.v \in IntTexts THEN Return(PyFloat(FloatText(val.v)))
            ELSE IF val.v \in FloatTexts THEN Return(PyFloat(val.v))
            ELSE Raise
      [] OTHER -> Raise

\* str(val).strip().lower() of the texts the model draws from.
Lower(s) == CASE s = "True" -> "true" [] s = "False" -> "false"
              [] s = "Yes" -> "yes" [] s = "Y" -> "y" [] OTHER -> s

ToBool(val) ==
    IF val.t = "bool" THEN Return(val)
    ELSE Return(PyBool(Lower(StrOf(val)) \in {"1", "true", "yes", "y"}))

\* _coerce for the column types the contracts of the model use (no datetime, no date).
Coerce(val, typ) ==
    IF val = None THEN Return(None)
    ELSE CASE typ = "string" -> Return(PyStr(StrOf(val)))
           [] typ = "integer" -> ToInt(val)
           [] typ = "number" -> ToFloat(val)
           [] typ = "boolean" -> ToBool(val)
           [] OTHER -> Return(val)

(***************************************************************************)
(* Schema contract and validation.  A contract is the sequence of its      *)
(* columns in dict order; NoContract is the absent contract.               *)
(***************************************************************************)
NoContract == <<>>

NoReason == <<>>

\* A validation that goes through all columns and reports the last failure.
RECURSIVE ValidateFromLastWins(_, _, _, _)
ValidateFromLastWins(row, contract, i, clean) ==
    IF i > Len(contract)
    THEN [ok |-> TRUE,
          cleaned |-> [k \in DOMAIN clean \cup DOMAIN row |->
                          IF k \in DOMAIN clean THEN clean[k] ELSE row[k]],
          reason |-> NoReason]
    ELSE LET name == contract[i].name
             column == contract[i]
             value == Get(row, name)
             c == Coerce(value, column.type)
             rest == ValidateFromLastWins(row, contract, i + 1,
                        [k \in DOMAIN clean \cup {name} |->
                            IF k # name THEN clean[k]
                            ELSE IF value = None \/ ~c.ok THEN None ELSE c.val])
         IN IF ~rest.ok THEN rest
            ELSE IF value = None /\ column.required
            THEN [ok |-> FALSE, cleaned |-> row, reason |-> <<"missing_required:", name>>]
            ELSE IF value # None /\ ~c.ok
            THEN [ok |-> FALSE, cleaned |-> row,
                  reason |-> <<"type_error:", name, ":", column.type>>]
            ELSE rest

RECURSIVE ValidateFrom(_, _, _, _)
ValidateFrom(row, contract, i, clean) ==
    IF i > Len(contract)
    THEN [ok |-> TRUE,
          cleaned |-> [k \in DOMAIN clean \cup DOMAIN row |->
                          IF k \in DOMAIN clean THEN clean[k] ELSE row[k]],
          reason |-> NoReason]
    ELSE LET name == contract[i].name
             column == contract[i]
             value == Get(row, name)
         IN IF value = None
            THEN IF column.required
                 THEN [ok |-> FALSE, cleaned |-> row,
                       reason |-> <<"missing_required:", name>>]
                 ELSE ValidateFrom(row, contract, i + 1,
                        [k \in DOMAIN clean \cup {name} |->
                            IF k = name THEN None ELSE clean[k]])
            ELSE LET c == Coerce(value, column.type)
                 IN IF ~c.ok
                    THEN [ok |-> FALSE, cleaned |-> row,
                          reason |-> <<"type_error:", name, ":", column.type>>]
                    ELSE ValidateFrom(row, contract, i + 1,
                           [k \in DOMAIN clean \cup {name} |->
                               IF k = name THEN c.val ELSE clean[k]])

EmptyDict == [k \in {} |-> None]

validate_row(row, contract) ==
    IF contract = NoContract
    THEN [ok |-> TRUE, cleaned |-> row, reason |-> NoReason]
    ELSE ValidateFrom(row, contract, 1, EmptyDict)

(***************************************************************************)
(* State.                                                                  *)
(***************************************************************************)
VARIABLES
    settings,   \* config.Settings, and whether resolve_credentials finds credentials
    contract,   \* schema._contract
    now,        \* int(time())
    rows,       \* table Row, in id order
    idem,       \* table Idempotency: key -> [created_at, response]
    dlq,        \* table DeadLetter, in id order
    remote,     \* the remote sheet's appended value rows
    first,      \* history: per Idempotency-Key, the first call of the current TTL window
    state,      \* scheduler.state (SyncState)
    worker,     \* retry_dlq's locals and position
    admin,      \* admin_retry_dlq's locals and position
    loops,      \* the run_periodic loops: each one's locals, position and pull thread
    app,        \* lifespan: its position and the error its shutdown ends with
    limiter,    \* ratelimit: time.time() and _buckets
    handlers    \* request handlers in flight, each in a thread of the pool

\* What the write path and the retry worker leave alone.
bgVars == <<admin, loops, app, limiter, handlers>>

vars == <<settings, contract, now, rows, idem, dlq, remote, first, state, worker, bgVars>>

(***************************************************************************)
(* The durable store (store.py).                                           *)
(***************************************************************************)
\* Row.key of a row without key.
NullKey == "<NULL>"

\* DeadLetter.created_at has the column default int(time()) of import time.
ImportTime == 0

RECURSIVE MaxId(_)
MaxId(table) ==
    IF table = <<>> THEN 0
    ELSE LET m == MaxId(Tail(table))
         IN IF Head(table).id > m THEN Head(table).id ELSE m

\* The integer primary key the store assigns on insert.
NextId(table) == MaxId(table) + 1

AddRow(table, key, data, at) ==
    Append(table, [id |-> NextId(table), key |-> key, data |-> data, created_at |-> at])

RECURSIVE insert_rows(_, _, _, _)
insert_rows(rs, table, key_column, at) ==
    IF rs = <<>> THEN table
    ELSE LET row == Head(rs)
             value == IF key_column # "" THEN Get(row, key_column) ELSE None
             key_value == IF value # None THEN StrOf(value) ELSE NullKey
         IN insert_rows(Tail(rs), AddRow(table, key_value, row, at), key_column, at)

upsert_rows(rs, table, key_column, at) ==
    [table |-> insert_rows(rs, table, key_column, at), touched |-> Len(rs)]

\* select(Row).where(Row.key == key_text).first(): 0 when there is none.
FindByKey(table, key_text) ==
    IF \E i \in 1..Len(table) : table[i].key = key_text
    THEN CHOOSE i \in 1..Len(table) :
            /\ table[i].key = key_text
            /\ \A j \in 1..Len(table) : table[j].key = key_text => i <= j
    ELSE 0

\* An upsert that never finds the key: every record becomes a new row.
UpsertOneAlwaysAdd(table, key_text, row, at) == AddRow(table, key_text, row, at)

UpsertOne(table, key_text, row, at) ==
    LET existing == FindByKey(table, key_text)
    IN IF existing # 0
       THEN [table EXCEPT ![existing].data = row, ![existing].created_at = at]
       ELSE AddRow(table, key_text, row, at)

\* The session's work on rs[i..]; a raise leaves the session uncommitted.
RECURSIVE UpsertFrom(_, _, _, _, _, _)
UpsertFrom(rs, key_column, strict, table, at, touched) ==
    IF rs = <<>> THEN [raised |-> FALSE, table |-> table, touched |-> touched]
    ELSE LET row == Head(rs)
             key_value == Get(row, key_column)
         IN IF key_value = None
            THEN IF strict
                 THEN [raised |-> TRUE, table |-> table, touched |-> touched]
                 ELSE UpsertFrom(Tail(rs), key_column, strict, table, at, touched)
            ELSE UpsertFrom(Tail(rs), key_column, strict,
                            UpsertOne(table, StrOf(key_value), row, at), at, touched + 1)

\* An upsert that skips a record without key whatever strict says.
upsert_by_key_lenient(rs, key_column, strict, table, at) ==
    UpsertFrom(rs, key_column, FALSE, table, at, 0)

upsert_by_key(rs, key_column, strict, table, at) ==
    LET r == UpsertFrom(rs, key_column, strict, table, at, 0)
    IN IF r.raised THEN [raised |-> TRUE, table |-> table, touched |-> 0] ELSE r

NoResponse == [absent |-> TRUE]

\* A get_idempotency that knows no TTL.
get_idempotency_forever(key, ttl_seconds) ==
    IF key \notin DOMAIN idem THEN NoResponse ELSE idem[key].response

\* A get_idempotency that takes an entry exactly ttl_seconds old for expired.
get_idempotency_strict(key, ttl_seconds) ==
    IF key \notin DOMAIN idem THEN NoResponse
    ELSE IF now - idem[key].created_at >= ttl_seconds THEN NoResponse
    ELSE idem[key].response

get_idempotency(key, ttl_seconds) ==
    IF key \notin DOMAIN idem THEN NoResponse
    ELSE IF now - idem[key].created_at > ttl_seconds THEN NoResponse
    ELSE idem[key].response

save_idempotency(table, key, response) ==
    [k \in DOMAIN table \cup {key} |->
        IF k = key THEN [created_at |-> now, response |-> response] ELSE table[k]]

dlq_write(table, reason, data) ==
    Append(table, [id |-> NextId(table), reason |-> reason, data |-> data,
                   created_at |-> ImportTime])

RECURSIVE dlq_write_all(_, _, _)
dlq_write_all(table, reason, rs) ==
    IF rs = <<>> THEN table
    ELSE dlq_write_all(dlq_write(table, reason, Head(rs)), reason, Tail(rs))

\* A fetch of the newest entries.
dlq_fetch_newest(table, limit) ==
    SubSeq(table, IF Len(table) < limit THEN 1 ELSE Len(table) - limit + 1, Len(table))

\* select(DeadLetter).order_by(DeadLetter.id).limit(limit)
dlq_fetch(table, limit) ==
    SubSeq(table, 1, IF Len(table) < limit THEN Len(table) ELSE limit)

RECURSIVE DropIds(_, _)
DropIds(table, ids) ==
    IF table = <<>> THEN <<>>
    ELSE IF Head(table).id \in ids THEN DropIds(Tail(table), ids)
    ELSE <<Head(table)>> \o DropIds(Tail(table), ids)

Range(seq) == {seq[i] : i \in DOMAIN seq}

\* A delete that removes only the first of the ids.
dlq_delete_first(table, ids) == IF ids = <<>> THEN table ELSE DropIds(table, {ids[1]})

dlq_delete(table, ids) == IF ids = <<>> THEN table ELSE DropIds(table, Range(ids))

(***************************************************************************)
(* The remote sheet (sheets.py): a row is written as its values under the  *)
(* sheet's header.                                                         *)
(***************************************************************************)
Header == <<"id", "val">>

ToValues(row) == [i \in 1..Len(Header) |-> Get(row, Header[i])]

RECURSIVE append_rows(_, _)
append_rows(sheet, rs) ==
    IF rs = <<>> THEN sheet ELSE append_rows(Append(sheet, ToValues(Head(rs))), Tail(rs))

append_row(sheet, row) == append_rows(sheet, <<row>>)

(***************************************************************************)
(* Requests (main.py).  A response is [status, body, replayed]; the body   *)
(* of an HTTPException is its detail.                                       *)
(***************************************************************************)
\* The Idempotency-Key header when the request carries none.
NoIdemKey == "<None>"

\* Python truthiness of the header value.
Truthy(idem_key) == idem_key \notin {NoIdemKey, ""}

\* reason or "invalid"
OrInvalid(reason) == IF reason = NoReason THEN <<"invalid">> ELSE reason

\* idem_key or None
OrNone(idem_key) == IF Truthy(idem_key) THEN idem_key ELSE NoIdemKey

SingleOut(stored, wrote, idem_key) ==
    [inserted |-> stored, wrote |-> wrote, idempotency_key |-> OrNone(idem_key)]

SaveIf(idem_key, out) ==
    IF Truthy(idem_key) THEN save_idempotency(idem, idem_key, out) ELSE idem

\* What a handler leaves behind: the tables, the remote sheet and the response.
Result(r, i, d, s, status, body, replayed, called) ==
    [rows |-> r, idem |-> i, dlq |-> d, remote |-> s, status |-> status,
     body |-> body, replayed |-> replayed, called |-> called]

\* The local upsert of append (main.py 244-255).
AppendStore(cleaned) ==
    IF settings.KEY_COLUMN # ""
    THEN upsert_by_key(<<cleaned>>, settings.KEY_COLUMN, settings.UPSERT_STRICT, rows, now)
    ELSE [raised |-> FALSE] @@ upsert_rows(<<cleaned>>, rows, settings.KEY_COLUMN, now)

\* POST /append with body row; remote_ok: append_row returns rather than raises.
append(row, idem_key, remote_ok) ==
    LET ttl == settings.IDEMPOTENCY_TTL_SECONDS
        cached == IF Truthy(idem_key) THEN get_idempotency(idem_key, ttl) ELSE NoResponse
        v == validate_row(row, contract)
        up == AppendStore(v.cleaned)
        stored == up.touched
        exc == <<"missing key ", settings.KEY_COLUMN>>
    IN IF cached # NoResponse
       THEN Result(rows, idem, dlq, remote, 200, cached, TRUE, FALSE)
       ELSE IF ~v.ok
       THEN Result(rows, idem, dlq_write(dlq, OrInvalid(v.reason), row), remote, 422,
                   [detail |-> <<"invalid">>, reason |-> v.reason], FALSE, FALSE)
       ELSE IF up.raised
       THEN Result(rows, idem, dlq_write(dlq, exc, row), remote, 422,
                   [detail |-> exc], FALSE, FALSE)
       ELSE IF ~settings.ALLOW_WRITE_BACK
       THEN Result(up.table, SaveIf(idem_key, SingleOut(stored, FALSE, idem_key)), dlq,
                   remote, 403, SingleOut(stored, FALSE, idem_key), FALSE, FALSE)
       ELSE IF ~settings.CREDS
       THEN Result(up.table, SaveIf(idem_key, SingleOut(stored, FALSE, idem_key)), dlq,
                   remote, 200, SingleOut(stored, FALSE, idem_key), FALSE, FALSE)
       ELSE IF ~remote_ok
       THEN Result(up.table, SaveIf(idem_key, SingleOut(stored, FALSE, idem_key)),
                   dlq_write(dlq, <<"write_failed">>, v.cleaned), remote, 200,
                   SingleOut(stored, FALSE, idem_key), FALSE, TRUE)
       ELSE Result(up.table, SaveIf(idem_key, SingleOut(stored, TRUE, idem_key)), dlq,
                   append_row(remote, v.cleaned), 200,
                   SingleOut(stored, TRUE, idem_key), FALSE, TRUE)

\* The validation loop of bulk_append (main.py 319-339) from 0-based index idx on.
RECURSIVE BulkClassify(_, _, _)
BulkClassify(rs, idx, acc) ==
    IF rs = <<>> THEN acc
    ELSE LET row == Head(rs)
             v == validate_row(row, contract)
             key_column == settings.KEY_COLUMN
             key_value == Get(v.cleaned, key_column)
             reason == <<"missing key:", key_column>>
             accepted == [acc EXCEPT !.cleaned_rows = Append(@, v.cleaned),
                                     !.ok_rows = Append(@, idx)]
         IN BulkClassify(Tail(rs), idx + 1,
              IF ~v.ok
              THEN [acc EXCEPT !.bad_rows = Append(@, [index |-> idx, reason |-> v.reason]),
                               !.dlq = dlq_write(@, OrInvalid(v.reason), row)]
              ELSE IF key_column # "" /\ key_value = None /\ settings.UPSERT_STRICT
              THEN [acc EXCEPT !.bad_rows = Append(@, [index |-> idx, reason |-> reason]),
                               !.dlq = dlq_write(@, reason, row)]
              ELSE IF key_column # "" /\ key_value # None
              THEN [accepted EXCEPT !.keyed_payload = Append(@, v.cleaned)]
              ELSE [accepted EXCEPT !.fallback_payload = Append(@, v.cleaned)])

\* The local upserts of bulk_append (main.py 341-348).
BulkStore(c) ==
    LET key_column == settings.KEY_COLUMN
        keyed == IF key_column # "" /\ c.keyed_payload # <<>>
                 THEN upsert_by_key(c.keyed_payload, key_column, settings.UPSERT_STRICT,
                                    rows, now).table
                 ELSE rows
    IN IF c.cleaned_rows = <<>> THEN rows
       ELSE IF key_column # "" /\ c.fallback_payload = <<>> THEN keyed
       ELSE insert_rows(c.fallback_payload, keyed, key_column, now)

Min(a, b) == IF a < b THEN a ELSE b

\* The chunked write-back of bulk_append (main.py 363-371) from chunk number n on;
\* oks[n]: append_rows of chunk n returns rather than raises.
RECURSIVE BulkWrite(_, _, _, _)
BulkWrite(batch, n, oks, acc) ==
    LET chunk_size == settings.SHEETS_BATCH_SIZE
        start == (n - 1) * chunk_size
        chunk == SubSeq(batch, start + 1, Min(start + chunk_size, Len(batch)))
    IN IF start >= Len(batch) THEN acc
       ELSE BulkWrite(batch, n + 1, oks,
              IF oks[n]
              THEN [acc EXCEPT !.remote = append_rows(@, chunk), !.success = TRUE]
              ELSE [acc EXCEPT !.dlq = dlq_write_all(@, <<"write_failed">>, chunk)])

\* A response whose count takes in the rejected records.
BulkOutCountsAll(c, wrote, idem_key) ==
    [accepted |-> c.ok_rows, rejected |-> c.bad_rows, wrote |-> wrote,
     count |-> Len(c.ok_rows) + Len(c.bad_rows), idempotency_key |-> idem_key]

BulkOut(c, wrote, idem_key) ==
    [accepted |-> c.ok_rows, rejected |-> c.bad_rows, wrote |-> wrote,
     count |-> Len(c.cleaned_rows), idempotency_key |-> idem_key]

\* A bulk_append without the check of len(rows) against BULK_MAX_ITEMS.
bulk_append_unbounded(rs, idem_key, oks) ==
    LET hit == IF Truthy(idem_key)
               THEN get_idempotency(idem_key, settings.IDEMPOTENCY_TTL_SECONDS)
               ELSE NoResponse
        c == BulkClassify(rs, 0, [ok_rows |-> <<>>, bad_rows |-> <<>>,
                                  cleaned_rows |-> <<>>, keyed_payload |-> <<>>,
                                  fallback_payload |-> <<>>, dlq |-> dlq])
        writes == settings.ALLOW_WRITE_BACK /\ c.cleaned_rows # <<>> /\ settings.CREDS
        w == IF writes
             THEN BulkWrite(c.cleaned_rows, 1, oks,
                            [remote |-> remote, dlq |-> c.dlq, success |-> FALSE])
             ELSE [remote |-> remote, dlq |-> c.dlq, success |-> FALSE]
        out == BulkOut(c, w.success, idem_key)
    IN IF hit # NoResponse
       THEN Result(rows, idem, dlq, remote, 200, hit, TRUE, FALSE)
       ELSE Result(BulkStore(c), SaveIf(idem_key, out), w.dlq, w.remote, 200, out,
                   FALSE, writes)

\* POST /bulk/append with body rs.
bulk_append(rs, idem_key, oks) ==
    LET ttl == settings.IDEMPOTENCY_TTL_SECONDS
        hit == IF Truthy(idem_key) THEN get_idempotency(idem_key, ttl) ELSE NoResponse
        c == BulkClassify(rs, 0, [ok_rows |-> <<>>, bad_rows |-> <<>>,
                                  cleaned_rows |-> <<>>, keyed_payload |-> <<>>,
                                  fallback_payload |-> <<>>, dlq |-> dlq])
        writes == settings.ALLOW_WRITE_BACK /\ c.cleaned_rows # <<>> /\ settings.CREDS
        w == IF writes
             THEN BulkWrite(c.cleaned_rows, 1, oks,
                            [remote |-> remote, dlq |-> c.dlq, success |-> FALSE])
             ELSE [remote |-> remote, dlq |-> c.dlq, success |-> FALSE]
        out == BulkOut(c, w.success, idem_key)
    IN IF Len(rs) > settings.BULK_MAX_ITEMS
       THEN Result(rows, idem, dlq, remote, 413, [detail |-> <<"too many rows">>],
                   FALSE, FALSE)
       ELSE IF hit # NoResponse
       THEN Result(rows, idem, dlq, remote, 200, hit, TRUE, FALSE)
       ELSE Result(BulkStore(c), SaveIf(idem_key, out), w.dlq, w.remote, 200, out,
                   FALSE, writes)

(***************************************************************************)
(* Inputs and initial states.                                              *)
(***************************************************************************)
RowA1 == [id |-> PyStr("a"), val |-> PyInt("1")]

RowA2 == [id |-> PyStr("a"), val |-> PyStr("2")]

RowNoKey == [val |-> PyInt("1")]

RowBad == [id |-> PyInt("7"), val |-> PyStr("x")]

Inputs == {RowA1, RowA2, RowNoKey, RowBad}

BulkInputs == {RowA1, RowNoKey, RowBad}

IdemKeys == {NoIdemKey, "K1"}

ValContract == <<[name |-> "val", type |-> "integer", required |-> TRUE]>>

Contracts == {NoContract, ValContract}

Seqs(S, n) == UNION {[1..m -> S] : m \in 1..n}

\* The settings the write path reads.  A setting no handler reads under the others
\* (UPSERT_STRICT without KEY_COLUMN, the credentials without ALLOW_WRITE_BACK) is
\* held at its default.
SettingsSet ==
    {s \in [KEY_COLUMN : {"", "id"}, UPSERT_STRICT : BOOLEAN, ALLOW_WRITE_BACK : BOOLEAN,
            CREDS : BOOLEAN, IDEMPOTENCY_TTL_SECONDS : {Ttl},
            BULK_MAX_ITEMS : {BulkMaxItems}, SHEETS_BATCH_SIZE : {BatchSize}] :
        /\ s.KEY_COLUMN = "" => s.UPSERT_STRICT
        /\ ~s.ALLOW_WRITE_BACK => ~s.CREDS}

\* last_started, last_finished before the first pull: None.
NoTime == -1

\* scheduler.SyncState() as constructed; a time is the clock's reading.
SyncStateInit ==
    [running |-> FALSE, last_started |-> NoTime, last_finished |-> NoTime,
     last_error |-> "None", total_runs |-> 0, total_errors |-> 0]

\* retry_dlq before its first cycle: run_one_sync is fn ("ok": always returns,
\* "fail": always raises, "any": either), tries counts the attempts per fetched row.
WorkerIdle ==
    [fn |-> "any", batch |-> 1, concurrency |-> 1, pc |-> "sleep", rows |-> <<>>,
     st |-> <<>>, tries |-> <<>>, ok_ids |-> <<>>]

\* SYNC_ENABLED is off: lifespan starts no run_periodic loop.
NoLoops == <<>>

\* lifespan has yielded: the application serves requests.
AppServing == [pc |-> "serving", error |-> "None"]

\* ratelimit as imported: no bucket; the clock starts at 0.
NoBuckets == [clock |-> 0, buckets |-> [k \in {} |-> 0]]

\* No request is being handled.
NoHandlers == <<>>

\* No admin_retry_dlq request in progress.
AdminIdle == [pc |-> "idle", rows |-> <<>>, i |-> 1, retried |-> <<>>]

InitStore ==
    /\ rows = <<>>
    /\ idem = [k \in {} |-> NoResponse]
    /\ dlq = <<>>
    /\ remote = <<>>

Init ==
    /\ settings \in SettingsSet
    /\ contract \in Contracts
    /\ now = 0
    /\ InitStore
    /\ first = [k \in {} |-> NoResponse]
    /\ state = SyncStateInit
    /\ worker = WorkerIdle
    /\ admin = AdminIdle
    /\ loops = NoLoops
    /\ app = AppServing
    /\ limiter = NoBuckets
    /\ handlers = NoHandlers

(***************************************************************************)
(* Request actions.                                                        *)
(***************************************************************************)
\* The validator or the strict key check refuses the record.
Rejected(row) ==
    LET v == validate_row(row, contract)
    IN \/ ~v.ok
       \/ /\ settings.KEY_COLUMN # ""
          /\ settings.UPSERT_STRICT
          /\ Get(v.cleaned, settings.KEY_COLUMN) = None

Cleaned(row) == validate_row(row, contract).cleaned

\* Table after holds rec through exactly one write to table before: one row added,
\* or one row's data replaced in place.
StoredOnce(before, after, rec) ==
    \/ /\ Len(after) = Len(before) + 1
       /\ SubSeq(after, 1, Len(before)) = before
       /\ after[Len(after)].data = rec
    \/ /\ Len(after) = Len(before)
       /\ \E i \in 1..Len(before) :
            /\ after[i].data = rec
            /\ after[i].id = before[i].id
            /\ after[i].key = before[i].key
            /\ \A j \in 1..Len(before) : j # i => after[j] = before[j]

\* The first call of an Idempotency-Key's TTL window, kept for the claims: when it
\* was made, its answer, how many records it carried and how many of them were
\* refused, and whether a single accepted record was stored by it.
Remember(idem_key, payload, r) ==
    IF /\ Truthy(idem_key)
       /\ r.status # 413
       /\ \/ idem_key \notin DOMAIN first
          \/ now - first[idem_key].at > settings.IDEMPOTENCY_TTL_SECONDS
    THEN [k \in DOMAIN first \cup {idem_key} |->
            IF k = idem_key
            THEN [at |-> now, body |-> r.body, status |-> r.status, n |-> Len(payload),
                  rejected |-> Cardinality({i \in DOMAIN payload : Rejected(payload[i])}),
                  stored_once |-> /\ Len(payload) = 1
                                  /\ StoredOnce(rows, r.rows, Cleaned(payload[1]))]
            ELSE first[k]]
    ELSE first

Handle(idem_key, payload, r) ==
    /\ Len(r.rows) <= MaxRows
    /\ Len(r.dlq) <= MaxDlq
    /\ Len(r.remote) <= MaxRemote
    /\ rows' = r.rows
    /\ idem' = r.idem
    /\ dlq' = r.dlq
    /\ remote' = r.remote
    /\ first' = Remember(idem_key, payload, r)
    /\ UNCHANGED <<settings, contract, now, state, worker, bgVars>>

\* Whether a handler that gets as far as the write-back calls the remote.
WritesBack == settings.ALLOW_WRITE_BACK /\ settings.CREDS

Append_(row, idem_key) ==
    \E remote_ok \in IF WritesBack THEN BOOLEAN ELSE {TRUE} :
        LET r == append(row, idem_key, remote_ok)
        IN /\ r.called \/ remote_ok
           /\ Handle(idem_key, <<row>>, r)

\* Chunks the write-back of an accepted batch makes.
NChunks(n) == (n + settings.SHEETS_BATCH_SIZE - 1) \div settings.SHEETS_BATCH_SIZE

\* The outcomes of the remote calls of a request of n records: one per chunk.
Outcomes(n) == IF WritesBack THEN [1..NChunks(n) -> BOOLEAN] ELSE {[c \in 1..NChunks(n) |-> TRUE]}

BulkAppend(rs, idem_key) ==
    \E oks \in Outcomes(Len(rs)) :
        LET r == bulk_append(rs, idem_key, oks)
        IN /\ \A n \in DOMAIN oks : ~oks[n] => r.called /\ n <= NChunks(r.body.count)
           /\ Handle(idem_key, rs, r)

Next ==
    \/ \E row \in Inputs, k \in IdemKeys : Append_(row, k)
    \/ \E rs \in Seqs(BulkInputs, MaxBulkLen), k \in IdemKeys : BulkAppend(rs, k)

Spec == Init /\ [][Next]_vars

(***************************************************************************)
(* The DLQ retry worker (scheduler.py retry_dlq).                          *)
(***************************************************************************)
\* A count that never sees an attempt in flight.
InFlightNone(w) == 0

\* The _handle coroutines inside `async with sem`.
InFlight(w) == Cardinality({i \in DOMAIN w.st : w.st[i] = "inflight"})

\* await asyncio.sleep(interval); rows = dlq_fetch(batch); an empty batch is skipped.
Fetch(w, table) ==
    LET fetched == dlq_fetch(table, w.batch)
    IN IF fetched = <<>> THEN w
       ELSE [w EXCEPT !.pc = "gather", !.rows = fetched,
                      !.st = [i \in DOMAIN fetched |-> "queued"],
                      !.tries = [i \in DOMAIN fetched |-> 0],
                      !.ok_ids = <<>>]

\* _handle(rows[i]) passes the semaphore and starts run_one_sync in a thread.
Acquire(w, i) == [w EXCEPT !.st[i] = "inflight", !.tries[i] = @ + 1]

\* A _handle that books a failed redelivery on the sync state.
HandledCounting(w, sync, sheet, i, ok) ==
    [worker |-> [w EXCEPT !.st[i] = "done",
                          !.ok_ids = IF ok THEN Append(@, w.rows[i].id) ELSE @],
     state |-> IF ok THEN sync
               ELSE [sync EXCEPT !.total_errors = @ + 1, !.last_error = "write_failed"],
     remote |-> IF ok THEN append_row(sheet, w.rows[i].data) ELSE sheet]

\* run_one_sync(rows[i]) has returned (ok) or raised: what _handle leaves behind.
Handled(w, sync, sheet, i, ok) ==
    [worker |-> [w EXCEPT !.st[i] = "done",
                          !.ok_ids = IF ok THEN Append(@, w.rows[i].id) ELSE @],
     state |-> sync,
     remote |-> IF ok THEN append_row(sheet, w.rows[i].data) ELSE sheet]

\* After gather: if ok_ids: dlq_delete(ok_ids).
Drain(w, table) ==
    [worker |-> [w EXCEPT !.pc = "sleep"],
     dlq |-> IF w.ok_ids # <<>> THEN dlq_delete(table, w.ok_ids) ELSE table]

RetryFetch ==
    /\ worker.pc = "sleep"
    /\ dlq # <<>>
    /\ worker' = Fetch(worker, dlq)
    /\ UNCHANGED <<settings, contract, now, rows, idem, dlq, remote, first, state, bgVars>>

\* asyncio.Semaphore wakes its waiters in the order gather created them.
RetryStart(i) ==
    /\ worker.pc = "gather"
    /\ worker.st[i] = "queued"
    /\ \A j \in 1..(i - 1) : worker.st[j] # "queued"
    /\ InFlight(worker) < worker.concurrency
    /\ worker' = Acquire(worker, i)
    /\ UNCHANGED <<settings, contract, now, rows, idem, dlq, remote, first, state, bgVars>>

RetryFinish(i, ok) ==
    /\ worker.pc = "gather"
    /\ worker.st[i] = "inflight"
    /\ worker.fn = "ok" => ok
    /\ worker.fn = "fail" => ~ok
    /\ LET h == Handled(worker, state, remote, i, ok)
       IN /\ Len(h.remote) <= MaxDlqInit
          /\ worker' = h.worker
          /\ state' = h.state
          /\ remote' = h.remote
    /\ UNCHANGED <<settings, contract, now, rows, idem, dlq, first, bgVars>>

RetryDelete ==
    /\ worker.pc = "gather"
    /\ \A i \in DOMAIN worker.st : worker.st[i] = "done"
    /\ LET d == Drain(worker, dlq)
       IN /\ worker' = d.worker
          /\ dlq' = d.dlq
    /\ UNCHANGED <<settings, contract, now, rows, idem, remote, first, state, bgVars>>

\* A request handler dead-letters a record while the worker runs.
DlqWrite(reason, data) ==
    /\ Len(dlq) < MaxDlqInit
    /\ dlq' = dlq_write(dlq, reason, data)
    /\ UNCHANGED <<settings, contract, now, rows, idem, remote, first, state, worker, bgVars>>

\* What the handlers dead-letter: a cleaned row the remote refused, a row the
\* validator refused.
DlqInputs ==
    {[reason |-> <<"write_failed">>, data |-> RowA1],
     [reason |-> <<"type_error:", "val", ":", "integer">>, data |-> RowBad]}

\* States run_periodic leaves SyncState in.
SyncStates ==
    {SyncStateInit,
     [SyncStateInit EXCEPT !.total_errors = 1,
                           !.last_error = "Google credentials not configured"]}

InitDlq ==
    /\ settings \in {s \in SettingsSet : s.KEY_COLUMN = "" /\ s.CREDS}
    /\ contract = NoContract
    /\ now = 0
    /\ InitStore
    /\ first = [k \in {} |-> NoResponse]
    /\ state \in SyncStates
    /\ worker \in {[WorkerIdle EXCEPT !.fn = f, !.batch = b, !.concurrency = c] :
                      f \in {"ok", "fail", "any"}, b \in 1..MaxBatch, c \in 1..MaxConcurrency}
    /\ admin = AdminIdle
    /\ loops = NoLoops
    /\ app = AppServing
    /\ limiter = NoBuckets
    /\ handlers = NoHandlers

NextDlq ==
    \/ RetryFetch
    \/ \E i \in DOMAIN worker.st : RetryStart(i)
    \/ \E i \in DOMAIN worker.st, ok \in BOOLEAN : RetryFinish(i, ok)
    \/ RetryDelete
    \/ \E e \in DlqInputs : DlqWrite(e.reason, e.data)

SpecDlq == InitDlq /\ [][NextDlq]_vars

(***************************************************************************)
(* Claims about the write path, checked in every reachable state against   *)
(* every request the state can receive.                                    *)
(***************************************************************************)
KeyOf(row) == Get(row, settings.KEY_COLUMN)

WithinTtl(k) == now - first[k].at <= settings.IDEMPOTENCY_TTL_SECONDS

AllOk(n) == [c \in 1..NChunks(n) |-> TRUE]

BulkRequests == Seqs(BulkInputs, MaxBulkLen)

\* d is table with exactly the entries of more appended, in order, under reason.
Gained(table, d, reason, more) ==
    /\ Len(d) = Len(table) + Len(more)
    /\ SubSeq(d, 1, Len(table)) = table
    /\ \A i \in DOMAIN more :
         /\ d[Len(table) + i].reason = reason
         /\ d[Len(table) + i].data = more[i]

StoredLocally(table, rec) == \E i \in DOMAIN table : table[i].data = rec

\* C1: requests with the same Idempotency-Key K and a valid record, issued one
\* after another within the TTL: every request after the first returns the first
\* one's response body, and the row store holds exactly one write in total, the
\* first request's record.
C1_ReplaySameBodyOneInsert ==
    \A k \in DOMAIN first :
        (WithinTtl(k) /\ first[k].n = 1 /\ first[k].rejected = 0) =>
            /\ first[k].stored_once
            /\ \A row \in Inputs : ~Rejected(row) =>
                 LET r == append(row, k, TRUE)
                 IN r.body = first[k].body /\ r.rows = rows
            /\ \A row \in BulkInputs : ~Rejected(row) =>
                 LET r == bulk_append(<<row>>, k, AllOk(1))
                 IN r.body = first[k].body /\ r.rows = rows

\* C2: once the first append call with Idempotency-Key K has completed, whatever
\* its outcome, every later call with K within the TTL changes neither the row
\* store nor the dead-letter queue nor the remote sheet and returns the first
\* call's response.
C2_LaterCallsNoSideEffect ==
    \A k \in DOMAIN first :
        WithinTtl(k) =>
            /\ \A row \in Inputs, ok \in BOOLEAN :
                 LET r == append(row, k, ok)
                 IN /\ r.rows = rows /\ r.dlq = dlq /\ r.remote = remote
                    /\ r.body = first[k].body
            /\ \A rs \in BulkRequests : \A oks \in Outcomes(Len(rs)) :
                 LET r == bulk_append(rs, k, oks)
                 IN /\ r.rows = rows /\ r.dlq = dlq /\ r.remote = remote
                    /\ r.body = first[k].body

RowsWithKey(table, key_text) == {i \in DOMAIN table : table[i].key = key_text}

\* after holds exactly one row with key key_text, its data is rec, and it is the
\* row (same position, same id) that held the key in before, when there was one.
HoldsLatest(before, after, key_text, rec) ==
    LET old == FindByKey(before, key_text)
        new == FindByKey(after, key_text)
    IN /\ Cardinality(RowsWithKey(after, key_text)) = 1
       /\ after[new].data = rec
       /\ old # 0 => new = old /\ after[new].id = before[old].id

\* The 1-based positions of the records a bulk response accepted.
AcceptedAt(r) == {r.body.accepted[j] + 1 : j \in DOMAIN r.body.accepted}

\* C3: with a key column configured, the row store holds at most one row per
\* key value, and after an executed append (single or bulk) that accepts records
\* carrying key value k it holds exactly one row with key k, whose data is the
\* last accepted such record and whose position and id are those of the row that
\* held k before, when there was one.
C3_UpsertReplacesInPlace ==
    settings.KEY_COLUMN # "" =>
        /\ \A i, j \in DOMAIN rows :
             (rows[i].key = rows[j].key /\ rows[i].key # NullKey) => i = j
        /\ \A row \in Inputs, k \in IdemKeys, ok \in BOOLEAN :
             LET r == append(row, k, ok)
                 rec == Cleaned(row)
             IN (~r.replayed /\ r.status # 422 /\ KeyOf(rec) # None) =>
                    HoldsLatest(rows, r.rows, StrOf(KeyOf(rec)), rec)
        /\ \A rs \in BulkRequests, k \in IdemKeys :
             LET r == bulk_append(rs, k, AllOk(Len(rs)))
             IN (~r.replayed /\ r.status = 200) =>
                    \A n \in AcceptedAt(r) :
                        LET rec == Cleaned(rs[n])
                        IN (/\ KeyOf(rec) # None
                            /\ \A m \in AcceptedAt(r) :
                                 m > n => KeyOf(Cleaned(rs[m])) # KeyOf(rec)) =>
                               HoldsLatest(rows, r.rows, StrOf(KeyOf(rec)), rec)

\* Key "a" was appended twice, RowA1 then RowA2 (the remote sheet logs both in
\* order): one row, of the first insert's id, holding the second record.
C3_ReplacedInPlace ==
    /\ settings.KEY_COLUMN = "id"
    /\ remote = <<ToValues(Cleaned(RowA1)), ToValues(Cleaned(RowA2))>>
    /\ Len(rows) = 1
    /\ rows[1].id = 1
    /\ rows[1].key = "a"
    /\ rows[1].data = Cleaned(RowA2)

\* C4: with a key column configured and strict, no stored row lacks the key, and
\* an executed append (single, or one item of a bulk append) of a record without
\* the key column is rejected, adds the original record to the dead-letter queue
\* and adds no row.
C4_StrictMissingKeyRejected ==
    (settings.KEY_COLUMN # "" /\ settings.UPSERT_STRICT) =>
        /\ \A i \in DOMAIN rows : rows[i].key # NullKey /\ KeyOf(rows[i].data) # None
        /\ \A row \in Inputs, k \in IdemKeys, ok \in BOOLEAN :
             LET r == append(row, k, ok)
             IN (~r.replayed /\ KeyOf(row) = None) =>
                    /\ r.status = 422
                    /\ r.rows = rows
                    /\ Len(r.dlq) = Len(dlq) + 1
                    /\ SubSeq(r.dlq, 1, Len(dlq)) = dlq
                    /\ r.dlq[Len(r.dlq)].data = row
        /\ \A rs \in BulkRequests, k \in IdemKeys : \A oks \in Outcomes(Len(rs)) :
             LET r == bulk_append(rs, k, oks)
             IN (~r.replayed /\ r.status = 200) =>
                    /\ \A n \in DOMAIN rs : KeyOf(rs[n]) = None => n \notin AcceptedAt(r)
                    /\ \A i \in DOMAIN r.rows : r.rows[i].key # NullKey
                    /\ SubSeq(r.dlq, 1, Len(dlq)) = dlq
                    /\ \A j \in DOMAIN r.body.rejected :
                         r.dlq[Len(dlq) + j].data = rs[r.body.rejected[j].index + 1]

\* Both paths have refused a record without key: each left its dead-letter entry.
C4_KeylessDeadLettered ==
    /\ settings.KEY_COLUMN = "id"
    /\ settings.UPSERT_STRICT
    /\ rows = <<>>
    /\ \E i, j \in DOMAIN dlq :
         /\ dlq[i].reason = <<"missing key ", "id">>
         /\ dlq[i].data = RowNoKey
         /\ dlq[j].reason = <<"missing key:", "id">>
         /\ dlq[j].data = RowNoKey

\* The cleaned records a bulk request accepts, in request order.
RECURSIVE AcceptedRecs(_, _)
AcceptedRecs(rs, r) ==
    IF rs = <<>> THEN <<>>
    ELSE LET n == Len(rs)
             front == AcceptedRecs(SubSeq(rs, 1, n - 1), r)
         IN IF n \in AcceptedAt(r) THEN Append(front, Cleaned(rs[n])) ELSE front

\* The records of batch whose write-back chunk raised, in order.
RECURSIVE FailedRecs(_, _)
FailedRecs(batch, oks) ==
    IF batch = <<>> THEN <<>>
    ELSE LET n == Len(batch)
             front == FailedRecs(SubSeq(batch, 1, n - 1), oks)
         IN IF oks[((n - 1) \div settings.SHEETS_BATCH_SIZE) + 1] THEN front
            ELSE Append(front, batch[n])

\* C5: with a key column configured and strict off, an executed append of a valid
\* record without the key column adds that record as one new row without key,
\* on /append as on /bulk/append.
C5_NonStrictInsertsKeyless ==
    (settings.KEY_COLUMN # "" /\ ~settings.UPSERT_STRICT) =>
        /\ \A row \in Inputs, k \in IdemKeys :
             LET r == append(row, k, TRUE)
                 rec == Cleaned(row)
             IN (~r.replayed /\ r.status # 422 /\ KeyOf(rec) = None) =>
                    /\ Len(r.rows) = Len(rows) + 1
                    /\ SubSeq(r.rows, 1, Len(rows)) = rows
                    /\ r.rows[Len(r.rows)].key = NullKey
                    /\ r.rows[Len(r.rows)].data = rec
        /\ \A row \in BulkInputs, k \in IdemKeys :
             LET r == bulk_append(<<row>>, k, AllOk(1))
                 rec == Cleaned(row)
             IN (~r.replayed /\ 1 \in AcceptedAt(r) /\ KeyOf(rec) = None) =>
                    /\ Len(r.rows) = Len(rows) + 1
                    /\ SubSeq(r.rows, 1, Len(rows)) = rows
                    /\ r.rows[Len(r.rows)].key = NullKey
                    /\ r.rows[Len(r.rows)].data = rec

\* C6: an executed /append of a record the validator refuses is answered 4xx,
\* adds exactly one dead-letter entry (the validator's reason, the submitted
\* record) and no row; once such an entry exists, an executed /append of a
\* record that is not refused is stored and leaves the dead-letter entries in
\* place.
C6_InvalidRejectedCorrectedStored ==
    \A row \in Inputs, k \in IdemKeys :
        LET r == append(row, k, TRUE)
            v == validate_row(row, contract)
        IN ~r.replayed =>
               /\ ~v.ok =>
                    /\ r.status \in 400..499
                    /\ r.rows = rows
                    /\ Gained(dlq, r.dlq, v.reason, <<row>>)
               /\ (/\ ~Rejected(row)
                   /\ \E i \in DOMAIN dlq : dlq[i].reason[1] \in {"missing_required:", "type_error:"}) =>
                    /\ StoredOnce(rows, r.rows, v.cleaned)
                    /\ r.dlq = dlq

\* C7: with write-back enabled, when the remote write of a single append or of a
\* chunk of a bulk append raises, each of its records is stored locally and gets
\* exactly one dead-letter entry with reason write_failed, the records of the
\* calls that returned get none, and the single append reports wrote = false.
C7_WriteFailedStoredAndDeadLettered ==
    WritesBack =>
        /\ \A row \in Inputs, k \in IdemKeys, ok \in BOOLEAN :
             LET r == append(row, k, ok)
                 rec == Cleaned(row)
             IN r.called =>
                    IF ok THEN r.dlq = dlq
                    ELSE /\ StoredLocally(r.rows, rec)
                         /\ Gained(dlq, r.dlq, <<"write_failed">>, <<rec>>)
                         /\ r.body.wrote = FALSE
        /\ \A rs \in BulkRequests, k \in IdemKeys : \A oks \in Outcomes(Len(rs)) :
             LET r == bulk_append(rs, k, oks)
                 failed == FailedRecs(AcceptedRecs(rs, r), oks)
                 refused == Len(r.body.rejected)
             IN r.called =>
                    /\ \A i \in DOMAIN failed : StoredLocally(r.rows, failed[i])
                    /\ Len(r.dlq) = Len(dlq) + refused + Len(failed)
                    /\ Gained(SubSeq(r.dlq, 1, Len(dlq) + refused), r.dlq,
                              <<"write_failed">>, failed)

\* C8: with write-back enabled and no remote credentials, an executed append that
\* is not refused stores the record locally, adds a dead-letter entry for it and
\* reports wrote = false.
C8_NoCredentialsDeadLettered ==
    (settings.ALLOW_WRITE_BACK /\ ~settings.CREDS) =>
        \A row \in Inputs, k \in IdemKeys :
            LET r == append(row, k, TRUE)
                rec == Cleaned(row)
            IN (~r.replayed /\ r.status # 422) =>
                   /\ r.body.wrote = FALSE
                   /\ Len(r.dlq) = Len(dlq) + 1
                   /\ r.dlq[Len(r.dlq)].data = rec
                   /\ StoredLocally(r.rows, rec)

(***************************************************************************)
(* Claims about the DLQ retry worker, checked on every step of SpecDlq.     *)
(***************************************************************************)
\* C9: a retry_dlq cycle fetches the first min(batch, N) of the N entries of the
\* dead-letter queue, so all N when batch >= N; when the redelivery function
\* always succeeds, the cycle has attempted each fetched entry exactly once when
\* it ends, and it leaves in the queue only what follows the fetched entries:
\* nothing, when it fetched all N and no entry was added meanwhile.
C9_SuccessfulCycleEmptiesQueue ==
    [][/\ (worker.pc = "sleep" /\ worker'.pc = "gather") =>
             /\ worker'.rows = SubSeq(dlq, 1, Min(Len(dlq), worker.batch))
             /\ worker.batch >= Len(dlq) => worker'.rows = dlq
       /\ (worker.pc = "gather" /\ worker'.pc = "sleep" /\ worker.fn = "ok") =>
             /\ \A i \in DOMAIN worker.rows : worker.tries[i] = 1
             /\ dlq' = SubSeq(dlq, Len(worker.rows) + 1, Len(dlq))
             /\ dlq = worker.rows => dlq' = <<>>]_vars

\* A cycle with a redelivery function that always succeeds has ended: it fetched
\* two or more entries, within batch, tried each once, and the queue is empty.
C9_CycleEmptiedQueue ==
    /\ worker.fn = "ok"
    /\ worker.pc = "sleep"
    /\ Len(worker.rows) >= 2
    /\ worker.batch >= Len(worker.rows)
    /\ \A i \in DOMAIN worker.rows : worker.tries[i] = 1
    /\ Len(worker.ok_ids) = Len(worker.rows)
    /\ Len(remote) >= Len(worker.rows)
    /\ dlq = <<>>

\* C10: when the redelivery function always fails, no step of a retry_dlq cycle
\* removes or changes a dead-letter entry (id, reason, data) or changes a field
\* of the sync state (running, last_error, total_runs, total_errors).
C10_FailedCycleChangesNothing ==
    [][worker.fn = "fail" =>
          /\ state' = state
          /\ Len(dlq') >= Len(dlq)
          /\ SubSeq(dlq', 1, Len(dlq)) = dlq]_vars

\* A cycle with a redelivery function that always fails has ended: it tried each
\* of two or more entries once, all are still queued, the sync state is as it was
\* before the cycle.
C10_CycleLeftEntries ==
    /\ worker.fn = "fail"
    /\ worker.pc = "sleep"
    /\ Len(worker.rows) >= 2
    /\ \A i \in DOMAIN worker.rows : worker.tries[i] = 1
    /\ worker.ok_ids = <<>>
    /\ Len(dlq) >= Len(worker.rows)
    /\ SubSeq(dlq, 1, Len(worker.rows)) = worker.rows
    /\ state \in SyncStates
    /\ remote = <<>>

(***************************************************************************)
(* The manual retry (main.py admin_retry_dlq), a synchronous handler that   *)
(* runs in a worker thread beside the retry worker and the other handlers.  *)
(***************************************************************************)
\* rows = dlq_fetch(50)
AdminBatch == 50

\* rows = dlq_fetch(50); without credentials the request ends with 503.
AdminFetch ==
    /\ admin.pc = "idle"
    /\ settings.CREDS
    /\ admin' = [pc |-> "try", rows |-> dlq_fetch(dlq, AdminBatch), i |-> 1, retried |-> <<>>]
    /\ UNCHANGED <<settings, contract, now, rows, idem, dlq, remote, first, state, worker, loops, app, limiter, handlers>>

\* One turn of the for loop: append_row(creds, row.data) returns (ok) or raises.
AdminTry(ok) ==
    /\ admin.pc = "try"
    /\ admin.i <= Len(admin.rows)
    /\ Len(remote) < MaxDlqInit
    /\ remote' = IF ok THEN append_row(remote, admin.rows[admin.i].data) ELSE remote
    /\ admin' = [admin EXCEPT !.i = @ + 1,
                              !.retried = IF ok THEN Append(@, admin.rows[admin.i].id) ELSE @]
    /\ UNCHANGED <<settings, contract, now, rows, idem, dlq, first, state, worker, loops, app, limiter, handlers>>

\* if retried: dlq_delete(retried); the request returns.
AdminDelete ==
    /\ admin.pc = "try"
    /\ admin.i > Len(admin.rows)
    /\ dlq' = IF admin.retried # <<>> THEN dlq_delete(dlq, admin.retried) ELSE dlq
    /\ admin' = AdminIdle
    /\ UNCHANGED <<settings, contract, now, rows, idem, remote, first, state, worker, loops, app, limiter, handlers>>

InitRetry ==
    /\ InitDlq
    /\ worker.fn = "any"
    /\ worker.batch = MaxBatch
    /\ worker.concurrency = 1
    /\ state = SyncStateInit

NextRetry ==
    \/ NextDlq
    \/ AdminFetch
    \/ \E ok \in BOOLEAN : AdminTry(ok)
    \/ AdminDelete

SpecRetry == InitRetry /\ [][NextRetry]_vars

\* The retry worker holds e as redelivered: fetched, its attempt returned.
WorkerDelivered(e) ==
    \E i \in DOMAIN worker.rows :
        /\ worker.rows[i] = e
        /\ worker.st[i] = "done"
        /\ e.id \in Range(worker.ok_ids)

\* The manual retry holds e as redelivered.
AdminDelivered(e) ==
    \E i \in DOMAIN admin.rows :
        /\ admin.rows[i] = e
        /\ i < admin.i
        /\ e.id \in Range(admin.retried)

\* C11: in every interleaving of the retry worker, the manual retry and
\* dead-letter writes, a step removes a dead-letter entry only if a redelivery
\* attempt for that very entry has returned successfully in the worker or in the
\* manual retry that removes it.
C11_DeletedOnlyAfterRedelivery ==
    [][\A e \in Range(dlq) :
          e \notin Range(dlq') => WorkerDelivered(e) \/ AdminDelivered(e)]_vars

(***************************************************************************)
(* The sync scheduler (scheduler.py run_periodic) and its pull task         *)
(* (main.py _sync_once, _sync_once_sync).  The sleeps are the positions     *)
(* "sleep" and "backoff"; the pull runs in a thread of its own.             *)
(***************************************************************************)
NLoops == 2

BackoffMax == 4

MaxSyncCount == 3

\* What fetch_sheet returns.
SheetRows == <<RowA1>>

NoCredentials == "Google credentials not configured"

\* run_periodic(task, interval, jitter, backoff_max) before its first sleep ends.
\* delay: what the backoff sleep was called with; fails: the failed pulls of this
\* loop since its last successful one.
LoopStart(backoff_max) ==
    [pc |-> "sleep", backoff |-> 1, backoff_max |-> backoff_max, thread |-> "none",
     delay |-> 0, fails |-> 0]

\* The tick after the sleep: under _lock, skip when running, else set running and
\* start the task, which hands _sync_once_sync to a thread.
Tick(lp, sync) ==
    IF sync.running THEN [loop |-> lp, state |-> sync]
    ELSE [loop |-> [lp EXCEPT !.pc = "task", !.thread = "pulling"],
          state |-> [sync EXCEPT !.running = TRUE, !.last_started = now]]

\* A success that leaves the backoff where the failures put it.
SucceededKeepsBackoff(lp, sync) ==
    [loop |-> [lp EXCEPT !.pc = "sleep", !.thread = "none", !.fails = 0],
     state |-> [sync EXCEPT !.last_error = "None", !.total_runs = @ + 1,
                            !.last_finished = now, !.running = FALSE]]

\* await task() returned; then the finally clause.
Succeeded(lp, sync) ==
    [loop |-> [lp EXCEPT !.pc = "sleep", !.backoff = 1, !.thread = "none", !.fails = 0],
     state |-> [sync EXCEPT !.last_error = "None", !.total_runs = @ + 1,
                            !.last_finished = now, !.running = FALSE]]

\* An except clause that lets the exception go: the finally clause, then the loop ends.
FailedPropagates(lp, sync, exc) ==
    [loop |-> [lp EXCEPT !.pc = "exited", !.thread = "none"],
     state |-> [sync EXCEPT !.last_finished = now, !.running = FALSE]]

\* An except clause that goes idle before it sleeps.
FailedGoesIdle(lp, sync, exc) ==
    [loop |-> [lp EXCEPT !.pc = "backoff", !.thread = "none", !.fails = @ + 1,
                         !.delay = Min(lp.backoff, lp.backoff_max)],
     state |-> [sync EXCEPT !.last_error = exc, !.total_errors = @ + 1,
                            !.last_finished = now, !.running = FALSE]]

\* await task() raised exc: the except clause up to its backoff sleep.
Failed(lp, sync, exc) ==
    [loop |-> [lp EXCEPT !.pc = "backoff", !.thread = "none", !.fails = @ + 1,
                         !.delay = Min(lp.backoff, lp.backoff_max)],
     state |-> [sync EXCEPT !.last_error = exc, !.total_errors = @ + 1]]

\* The backoff sleep is over: the backoff doubles; then the finally clause.
BackedOff(lp, sync) ==
    [loop |-> [lp EXCEPT !.pc = "sleep",
                         !.backoff = Min(lp.backoff * 2, lp.backoff_max)],
     state |-> [sync EXCEPT !.last_finished = now, !.running = FALSE]]

\* CancelledError at the loop's await: outside the try during the interval sleep,
\* inside it (the finally clause runs) during the task and the backoff sleep.  The
\* thread asyncio.to_thread started is not stopped.
Cancelled(lp, sync) ==
    [loop |-> [lp EXCEPT !.pc = "exited"],
     state |-> IF lp.pc = "sleep" THEN sync
               ELSE [sync EXCEPT !.last_finished = now, !.running = FALSE]]

NotSync ==
    <<settings, contract, now, idem, dlq, remote, first, worker, admin, app, limiter,
      handlers>>

SetLoop(l, r) ==
    /\ loops' = [loops EXCEPT ![l] = r.loop]
    /\ state' = r.state

SyncTick(l) ==
    /\ loops[l].pc = "sleep"
    /\ state.total_runs < MaxSyncCount
    /\ state.total_errors < MaxSyncCount
    /\ SetLoop(l, Tick(loops[l], state))
    /\ UNCHANGED <<rows, NotSync>>

\* The thread running _sync_once_sync ends: without credentials it raises, else
\* fetch_sheet raises or the fetched rows are inserted.  A loop still awaiting
\* it goes on from the outcome.
PullEnd(l, ok) ==
    /\ loops[l].thread = "pulling"
    /\ ok => settings.CREDS
    /\ rows' = IF ok THEN insert_rows(SheetRows, rows, settings.KEY_COLUMN, now) ELSE rows
    /\ IF loops[l].pc = "task"
       THEN SetLoop(l, IF ok THEN Succeeded(loops[l], state)
                       ELSE Failed(loops[l], state,
                                   IF settings.CREDS THEN "fetch failed" ELSE NoCredentials))
       ELSE /\ loops' = [loops EXCEPT ![l].thread = "none"]
            /\ state' = state
    /\ UNCHANGED NotSync

BackoffEnd(l) ==
    /\ loops[l].pc = "backoff"
    /\ SetLoop(l, BackedOff(loops[l], state))
    /\ UNCHANGED <<rows, NotSync>>

SyncCancel(l) ==
    /\ loops[l].pc \in {"sleep", "task", "backoff"}
    /\ SetLoop(l, Cancelled(loops[l], state))
    /\ UNCHANGED <<rows, NotSync>>

InitSync ==
    /\ settings \in {s \in SettingsSet : s.KEY_COLUMN = "" /\ s.ALLOW_WRITE_BACK}
    /\ contract = NoContract
    /\ now = 0
    /\ InitStore
    /\ first = [k \in {} |-> NoResponse]
    /\ state = SyncStateInit
    /\ worker = WorkerIdle
    /\ admin = AdminIdle
    /\ loops = [l \in 1..NLoops |-> LoopStart(BackoffMax)]
    /\ app = AppServing
    /\ limiter = NoBuckets
    /\ handlers = NoHandlers

NextSyncRun ==
    \/ \E l \in DOMAIN loops : SyncTick(l)
    \/ \E l \in DOMAIN loops, ok \in BOOLEAN : PullEnd(l, ok)
    \/ \E l \in DOMAIN loops : BackoffEnd(l)

NextSync ==
    \/ NextSyncRun
    \/ \E l \in DOMAIN loops : SyncCancel(l)

SpecSync == InitSync /\ [][NextSync]_vars

\* The loops run on and are never cancelled.
SpecSyncLive ==
    /\ InitSync
    /\ [][NextSyncRun]_vars
    /\ \A l \in 1..NLoops :
         /\ WF_vars(SyncTick(l))
         /\ WF_vars(\E ok \in BOOLEAN : PullEnd(l, ok))
         /\ WF_vars(BackoffEnd(l))

Pulling == {l \in DOMAIN loops : loops[l].thread = "pulling"}

\* C12: at no time are two executions of the scheduled pull in progress; a tick
\* that finds running = true starts no pull and changes neither the sync state
\* nor the loop; total_runs never exceeds the number of pulls that completed
\* (each completed pull has inserted the fetched rows).
C12_NoOverlappingPulls ==
    /\ Cardinality(Pulling) <= 1
    /\ \A l \in DOMAIN loops :
         (loops[l].pc = "sleep" /\ state.running) =>
             Tick(loops[l], state) = [loop |-> loops[l], state |-> state]
    /\ state.total_runs * Len(SheetRows) <= Len(rows)

\* C13: an exception of the pull task, "Google credentials not configured"
\* included, is recorded in the sync state and never ends the loop: no loop
\* exits, and without credentials total_errors reaches every n from 1 up to the
\* bound of the model, last_error holding the exception's message.
C13_ErrorsRecordedLoopGoesOn ==
    /\ [](\A l \in DOMAIN loops : loops[l].pc # "exited")
    /\ []((~settings.CREDS /\ state.total_errors > 0) => state.last_error = NoCredentials)
    /\ \A n \in 1..MaxSyncCount : <>(settings.CREDS \/ state.total_errors >= n)

\* Without credentials the loops have failed as often as the model counts, and
\* all of them are still running.
C13_FailedAndStillRunning ==
    /\ ~settings.CREDS
    /\ state.total_errors = MaxSyncCount
    /\ state.total_runs = 0
    /\ state.last_error = NoCredentials
    /\ \A l \in DOMAIN loops : loops[l].pc \in {"sleep", "backoff"}
    /\ \E l \in DOMAIN loops : loops[l].backoff > 1

\* C15: once a cancelled loop has exited, no pull started by it is still
\* executing, so none inserts rows afterwards.
C15_NoOrphanedRun ==
    \A l \in DOMAIN loops : loops[l].pc = "exited" => loops[l].thread = "none"

(***************************************************************************)
(* Store failures inside retry_dlq (scheduler.py 63-82): only run_one_sync *)
(* sits in a try/except; dlq_fetch and dlq_delete are awaited bare.        *)
(***************************************************************************)
\* An exception leaves the while loop: the task of retry_dlq is done.
Raised(w) == [w EXCEPT !.pc = "dead"]

\* rows = await to_thread(dlq_fetch, batch) raises (sqlite3 OperationalError).
RetryFetchFails ==
    /\ worker.pc = "sleep"
    /\ worker' = Raised(worker)
    /\ UNCHANGED <<settings, contract, now, rows, idem, dlq, remote, first, state, bgVars>>

\* await to_thread(dlq_delete, ok_ids) raises: nothing is deleted.
RetryDeleteFails ==
    /\ worker.pc = "gather"
    /\ \A i \in DOMAIN worker.st : worker.st[i] = "done"
    /\ worker.ok_ids # <<>>
    /\ worker' = Raised(worker)
    /\ UNCHANGED <<settings, contract, now, rows, idem, dlq, remote, first, state, bgVars>>

InitFault ==
    /\ InitDlq
    /\ worker.fn = "any"
    /\ worker.concurrency = 1
    /\ state = SyncStateInit

NextFault ==
    \/ NextDlq
    \/ RetryFetchFails
    \/ RetryDeleteFails

SpecFault == InitFault /\ [][NextFault]_vars

\* C14: no exception raised inside the DLQ retry loop (by a redelivery attempt,
\* by dlq_fetch or by dlq_delete) terminates retry_dlq: the worker is always
\* either sleeping before its next cycle or inside a cycle.
C14_NoExceptionEndsRetryLoop == worker.pc \in {"sleep", "gather"}

(***************************************************************************)
(* Shutdown (main.py lifespan, the finally clause): for every started task *)
(* in order, task.cancel() and, under suppress(CancelledError, Exception), *)
(* await task.  The sync loop comes first, the DLQ retry worker second.    *)
(***************************************************************************)
\* with suppress(asyncio.CancelledError, Exception): what gets out of the block.
suppress(exc) == IF exc \in {"CancelledError", "Exception"} THEN "None" ELSE exc

\* What await task raises for the worker's finished task.
WorkerAwaited(w) == suppress(IF w.pc = "dead" THEN "Exception" ELSE "CancelledError")

\* CancelledError in retry_dlq: gather cancels every _handle; one waiting at the
\* semaphore ends at once, one awaiting its thread ends without touching ok_ids
\* while the thread runs on.
WorkerCancelled(w) ==
    [w EXCEPT !.pc = "exited",
              !.st = [i \in DOMAIN w.st |->
                        IF w.st[i] = "queued" THEN "cancelled" ELSE w.st[i]]]

\* The server stops serving: lifespan resumes after its yield.
ShutdownBegin ==
    /\ app.pc = "serving"
    /\ app' = [app EXCEPT !.pc = "stopping"]
    /\ UNCHANGED <<settings, contract, now, rows, idem, dlq, remote, first, state, worker,
                   admin, loops, limiter, handlers>>

\* task.cancel(); await task for the sync loop.
ShutdownSync(l) ==
    /\ app.pc = "stopping"
    /\ loops[l].pc # "exited"
    /\ SetLoop(l, Cancelled(loops[l], state))
    /\ app' = [app EXCEPT !.error = suppress("CancelledError")]
    /\ UNCHANGED <<settings, contract, now, rows, idem, dlq, remote, first, worker, admin,
                   limiter, handlers>>

\* task.cancel(); await task for the DLQ retry worker; then lifespan returns.
ShutdownWorker ==
    /\ app.pc = "stopping"
    /\ \A l \in DOMAIN loops : loops[l].pc = "exited"
    /\ worker' = IF worker.pc = "dead" THEN worker ELSE WorkerCancelled(worker)
    /\ app' = [pc |-> "stopped", error |-> WorkerAwaited(worker)]
    /\ UNCHANGED <<settings, contract, now, rows, idem, dlq, remote, first, state, admin,
                   loops, limiter, handlers>>

\* The thread of a cancelled _handle ends: its row reaches the sheet or not.
RetryThreadEnd(i, ok) ==
    /\ worker.pc = "exited"
    /\ worker.st[i] = "inflight"
    /\ Len(remote) < MaxDlqInit
    /\ worker' = [worker EXCEPT !.st[i] = "done"]
    /\ remote' = IF ok THEN append_row(remote, worker.rows[i].data) ELSE remote
    /\ UNCHANGED <<settings, contract, now, rows, idem, dlq, first, state, admin, loops,
                   app, limiter, handlers>>

\* A request handler dead-letters a record while the application serves.
ServingDlqWrite ==
    /\ app.pc = "serving"
    /\ Len(dlq) < MaxDlq
    /\ \E e \in DlqInputs : DlqWrite(e.reason, e.data)

\* lifespan has started its tasks: run_periodic when SYNC_ENABLED, retry_dlq.
InitShutdown ==
    /\ settings \in {s \in SettingsSet : s.KEY_COLUMN = "" /\ s.CREDS}
    /\ contract = NoContract
    /\ now = 0
    /\ InitStore
    /\ first = [k \in {} |-> NoResponse]
    /\ state = SyncStateInit
    /\ worker = [WorkerIdle EXCEPT !.batch = MaxBatch]
    /\ admin = AdminIdle
    /\ loops \in {NoLoops, <<LoopStart(BackoffMax)>>}
    /\ app = AppServing
    /\ limiter = NoBuckets
    /\ handlers = NoHandlers

NextShutdown ==
    \/ NextSyncRun
    \/ RetryFetch
    \/ RetryFetchFails
    \/ \E i \in DOMAIN worker.st : RetryStart(i)
    \/ \E i \in DOMAIN worker.st, ok \in BOOLEAN : RetryFinish(i, ok)
    \/ RetryDelete
    \/ ServingDlqWrite
    \/ ShutdownBegin
    \/ \E l \in DOMAIN loops : ShutdownSync(l)
    \/ ShutdownWorker
    \/ \E i \in DOMAIN worker.st, ok \in BOOLEAN : RetryThreadEnd(i, ok)

\* The steps of lifespan's finally clause are taken once they can be.
SpecShutdown ==
    /\ InitShutdown
    /\ [][NextShutdown]_vars
    /\ WF_vars(\E l \in DOMAIN loops : ShutdownSync(l))
    /\ WF_vars(ShutdownWorker)

\* C16: on shutdown every started loop (sync scheduler, DLQ retry worker) is
\* cancelled and awaited; shutdown always completes; the cancellation is not
\* propagated as an error; after shutdown has completed neither loop takes any
\* further step (nothing of the loops, the sync state, the worker, or of what
\* they write to changes).
C16_ShutdownCancelsAndAwaits ==
    /\ [](app.pc = "stopped" =>
            /\ \A l \in DOMAIN loops : loops[l].pc = "exited"
            /\ worker.pc \in {"exited", "dead"})
    /\ (app.pc = "stopping") ~> (app.pc = "stopped")
    /\ [](app.error = "None")
    /\ [][app.pc = "stopped" => UNCHANGED <<loops, state, worker, rows, remote, dlq>>]_vars

(***************************************************************************)
(* The rate limiter (ratelimit.py).  Time is counted in ticks, PerToken    *)
(* ticks to the second; tokens are counted in units of 1/PerToken token,   *)
(* so that elapsed * rps is a whole number of units.                       *)
(***************************************************************************)
PerToken == 2

MaxClock == 4

\* The most ticks that pass between the two clock reads of a bucket-creating call.
MaxGap == 1

LimitKeys == {"hostA", "hostB"}

\* RATE_LIMIT_BURST and RATE_LIMIT_RPS are not validated: a burst of 0, a negative rate.
Bursts == {0, 1, 2}

Rates == {-1, 1, 2}

\* Bucket(capacity), its time.time() returning updated.
Bucket(capacity, updated) == [tokens |-> capacity * PerToken, updated |-> updated]

\* The limiter as imported, under the settings rps and burst.
Limiter(rps, burst) ==
    [clock |-> 0, rps |-> rps, burst |-> burst,
     buckets |-> [k \in {} |-> Bucket(burst, 0)],
     last |-> [key |-> "none", ok |-> TRUE]]

\* An allow that never refills.
allow_no_refill(lim, key, gap) ==
    LET fresh == key \notin DOMAIN lim.buckets
        bucket == IF fresh THEN Bucket(lim.burst, lim.clock + gap) ELSE lim.buckets[key]
        ok == bucket.tokens >= PerToken
        after == [tokens |-> IF ok THEN bucket.tokens - PerToken ELSE bucket.tokens,
                  updated |-> lim.clock]
    IN [ok |-> ok, refilled |-> bucket.tokens,
        limiter |-> [lim EXCEPT !.clock = IF fresh THEN @ + gap ELSE @,
                                !.buckets = [k \in DOMAIN lim.buckets \cup {key} |->
                                               IF k = key THEN after ELSE lim.buckets[k]],
                                !.last = [key |-> key, ok |-> ok]]]

\* An allow that refills without the cap of burst.
allow_uncapped(lim, key, gap) ==
    LET now_ == lim.clock
        fresh == key \notin DOMAIN lim.buckets
        bucket == IF fresh THEN Bucket(lim.burst, lim.clock + gap) ELSE lim.buckets[key]
        elapsed == now_ - bucket.updated
        rate == IF lim.rps > 0 THEN lim.rps ELSE 0
        tokens == bucket.tokens + elapsed * rate
        ok == tokens >= PerToken
        after == [tokens |-> IF ok THEN tokens - PerToken ELSE tokens, updated |-> now_]
    IN [ok |-> ok, refilled |-> tokens,
        limiter |-> [lim EXCEPT !.clock = IF fresh THEN @ + gap ELSE @,
                                !.buckets = [k \in DOMAIN lim.buckets \cup {key} |->
                                               IF k = key THEN after ELSE lim.buckets[k]],
                                !.last = [key |-> key, ok |-> ok]]]

\* allow(key, rps, burst): now is read first; a bucket created by this call reads
\* the clock again, gap ticks later.
allow(lim, key, gap) ==
    LET now_ == lim.clock
        fresh == key \notin DOMAIN lim.buckets
        bucket == IF fresh THEN Bucket(lim.burst, lim.clock + gap) ELSE lim.buckets[key]
        elapsed == now_ - bucket.updated
        rate == IF lim.rps > 0 THEN lim.rps ELSE 0
        tokens == Min(lim.burst * PerToken, bucket.tokens + elapsed * rate)
        ok == tokens >= PerToken
        after == [tokens |-> IF ok THEN tokens - PerToken ELSE tokens, updated |-> now_]
    IN [ok |-> ok, refilled |-> tokens,
        limiter |-> [lim EXCEPT !.clock = IF fresh THEN @ + gap ELSE @,
                                !.buckets = [k \in DOMAIN lim.buckets \cup {key} |->
                                               IF k = key THEN after ELSE lim.buckets[k]],
                                !.last = [key |-> key, ok |-> ok]]]

NotLimiter ==
    <<settings, contract, now, rows, idem, dlq, remote, first, state, worker, admin, loops,
      app, handlers>>

\* The middleware calls allow for a client.
Allow(key, gap) ==
    /\ limiter.clock + gap <= MaxClock
    /\ key \in DOMAIN limiter.buckets => gap = 0
    /\ limiter' = allow(limiter, key, gap).limiter
    /\ UNCHANGED NotLimiter

\* Time passes between two calls.
ClockTick ==
    /\ limiter.clock < MaxClock
    /\ limiter' = [limiter EXCEPT !.clock = @ + 1]
    /\ UNCHANGED NotLimiter

InitLimit ==
    /\ settings \in {s \in SettingsSet : s.KEY_COLUMN = "" /\ s.CREDS}
    /\ contract = NoContract
    /\ now = 0
    /\ InitStore
    /\ first = [k \in {} |-> NoResponse]
    /\ state = SyncStateInit
    /\ worker = WorkerIdle
    /\ admin = AdminIdle
    /\ loops = NoLoops
    /\ app = AppServing
    /\ limiter \in {Limiter(r, b) : r \in Rates, b \in Bursts}
    /\ handlers = NoHandlers

NextLimit ==
    \/ \E key \in LimitKeys, gap \in 0..MaxGap : Allow(key, gap)
    \/ ClockTick

SpecLimit == InitLimit /\ [][NextLimit]_vars

\* The results of n allow calls for key, one after the other with no time between
\* them, and the limiter they leave.
RECURSIVE Calls(_, _, _)
Calls(lim, key, n) ==
    IF n = 0 THEN [oks |-> <<>>, limiter |-> lim]
    ELSE LET before == Calls(lim, key, n - 1)
             r == allow(before.limiter, key, 0)
         IN [oks |-> Append(before.oks, r.ok), limiter |-> r.limiter]

\* For a key with no bucket yet: burst + 1 calls with no time elapsing give true
\* burst times and then false, and a call d ticks later, d ticks being at least
\* 1/rps seconds, gives true.
BurstThenRefill(key) ==
    LET B == limiter.burst
        c == Calls(limiter, key, B + 1)
    IN /\ \A i \in 1..B : c.oks[i]
       /\ ~c.oks[B + 1]
       /\ \A d \in 0..(MaxClock + PerToken) :
            d * limiter.rps >= PerToken =>
                allow([c.limiter EXCEPT !.clock = @ + d], key, 0).ok

\* C17 as stated: for a key with no bucket yet, any burst B and rate r > 0, B + 1
\* calls with no time elapsing return true B times and then false, and a call at
\* least 1/r seconds after the denial returns true.
C17_AnyBurst ==
    \A key \in LimitKeys \ DOMAIN limiter.buckets :
        limiter.rps > 0 => BurstThenRefill(key)

\* C17: for a key with no bucket yet, a burst B >= 1 and a rate r > 0, B + 1
\* calls with no time elapsing return true B times and then false, and a call at
\* least 1/r seconds after the denial returns true.
C17_BurstThenRefill ==
    \A key \in LimitKeys \ DOMAIN limiter.buckets :
        (limiter.rps > 0 /\ limiter.burst >= 1) => BurstThenRefill(key)

\* A key has used its burst of two at one instant and was denied the third call.
C17_BurstUsedAndDenied ==
    /\ limiter.rps > 0
    /\ limiter.burst = 2
    /\ limiter.clock = 0
    /\ limiter.last = [key |-> "hostA", ok |-> FALSE]
    /\ "hostA" \in DOMAIN limiter.buckets
    /\ limiter.buckets["hostA"].tokens = 0

\* C18: with a fixed burst and a non-decreasing clock, after every allow call the
\* bucket's tokens are within [0, burst]; a denied call never lowers the token
\* count (for a new key: the burst it starts with); an allowed call leaves the
\* refilled amount less one token; the bucket of another key is not changed.
C18_TokensWithinBurst ==
    \A key \in LimitKeys, gap \in 0..MaxGap :
        (key \in DOMAIN limiter.buckets => gap = 0) =>
            LET r == allow(limiter, key, gap)
                had == IF key \in DOMAIN limiter.buckets
                       THEN limiter.buckets[key].tokens ELSE limiter.burst * PerToken
                has == r.limiter.buckets[key].tokens
            IN /\ 0 <= has /\ has <= limiter.burst * PerToken
               /\ ~r.ok => has >= had
               /\ has = IF r.ok THEN r.refilled - PerToken ELSE r.refilled
               /\ \A k \in DOMAIN limiter.buckets \ {key} :
                    r.limiter.buckets[k] = limiter.buckets[k]

(***************************************************************************)
(* Idempotency entries over time: every request carries the same           *)
(* Idempotency-Key, and the clock of int(time()) moves between requests.   *)
(***************************************************************************)
MaxNow == 3

MaxTtl == 1

TheKey == "K1"

\* int(time()) has moved on by a second.
TimePasses ==
    /\ now < MaxNow
    /\ now' = now + 1
    /\ UNCHANGED <<settings, contract, rows, idem, dlq, remote, first, state, worker, bgVars>>

InitTtl ==
    /\ settings \in {[s EXCEPT !.IDEMPOTENCY_TTL_SECONDS = t] :
                        s \in SettingsSet, t \in 0..MaxTtl}
    /\ contract \in Contracts
    /\ now = 0
    /\ InitStore
    /\ first = [k \in {} |-> NoResponse]
    /\ state = SyncStateInit
    /\ worker = WorkerIdle
    /\ admin = AdminIdle
    /\ loops = NoLoops
    /\ app = AppServing
    /\ limiter = NoBuckets
    /\ handlers = NoHandlers

NextTtl ==
    \/ \E row \in Inputs : Append_(row, TheKey)
    \/ TimePasses

SpecTtl == InitTtl /\ [][NextTtl]_vars

\* What an append with the key of an absent entry does: no replay; when it
\* answers 200 the entry holds the new response as of now; a record it reports
\* inserted is stored by one write, which without a key column adds a row.
ReExecutes(row, r) ==
    /\ ~r.replayed
    /\ r.status = 200 =>
         /\ r.idem[TheKey] = [created_at |-> now, response |-> r.body]
         /\ r.body.inserted = 1 => StoredOnce(rows, r.rows, Cleaned(row))
         /\ settings.KEY_COLUMN = "" =>
              /\ Len(r.rows) = Len(rows) + 1
              /\ r.rows[Len(r.rows)].data = Cleaned(row)

C20_GetIdempotencyWithinTtl ==
    /\ \A key \in IdemKeys, ttl \in 0..MaxNow :
         get_idempotency(key, ttl) =
            IF key \in DOMAIN idem /\ now - idem[key].created_at <= ttl
            THEN idem[key].response ELSE NoResponse
    /\ \A row \in Inputs, remote_ok \in BOOLEAN :
         LET r == append(row, TheKey, remote_ok)
         IN (r.replayed \/ r.status = 422) => r.idem = idem

\* An entry exactly TTL seconds old, TTL not 0, and one older than that.
C20_EntryAtTheEdge ==
    /\ TheKey \in DOMAIN idem
    /\ settings.IDEMPOTENCY_TTL_SECONDS > 0
    /\ now - idem[TheKey].created_at = settings.IDEMPOTENCY_TTL_SECONDS

(***************************************************************************)
(* The purge of idempotency entries (store.py purge_idempotency_older_than,*)
(* main.py POST /admin/idempotency/purge) beside appends under two keys.   *)
(***************************************************************************)
PurgeKeys == {"K1", "K2"}

\* A purge whose cutoff takes the entries exactly ttl_seconds old as well.
purge_idempotency_through(table, ttl_seconds) ==
    LET cutoff == now - ttl_seconds
        kept == {k \in DOMAIN table : ~(table[k].created_at <= cutoff)}
    IN [table |-> [k \in kept |-> table[k]],
        purged |-> Cardinality(DOMAIN table \ kept)]

\* cutoff = int(time()) - ttl_seconds; DELETE ... WHERE created_at < cutoff;
\* returns the rowcount.
purge_idempotency_older_than(table, ttl_seconds) ==
    LET cutoff == now - ttl_seconds
        kept == {k \in DOMAIN table : ~(table[k].created_at < cutoff)}
    IN [table |-> [k \in kept |-> table[k]],
        purged |-> Cardinality(DOMAIN table \ kept)]

\* POST /admin/idempotency/purge
PurgeIdempotency ==
    /\ idem' = purge_idempotency_older_than(idem, settings.IDEMPOTENCY_TTL_SECONDS).table
    /\ UNCHANGED <<settings, contract, now, rows, dlq, remote, first, state, worker, bgVars>>

NextPurge ==
    \/ \E row \in {RowA1, RowBad}, k \in PurgeKeys : Append_(row, k)
    \/ TimePasses
    \/ PurgeIdempotency

SpecPurge == InitTtl /\ [][NextPurge]_vars

\* C21: purge_idempotency_older_than(ttl) deletes exactly the entries that
\* get_idempotency with the same ttl treats as expired at that instant, returns
\* their number and leaves every other entry as it was; no step other than the
\* purge removes an idempotency entry.
C21_PurgeDeletesExactlyExpired ==
    /\ [](\A ttl \in 0..MaxNow :
            LET p == purge_idempotency_older_than(idem, ttl)
                expired == {k \in DOMAIN idem : get_idempotency(k, ttl) = NoResponse}
            IN /\ DOMAIN p.table = DOMAIN idem \ expired
               /\ \A k \in DOMAIN p.table : p.table[k] = idem[k]
               /\ p.purged = Cardinality(expired))
    /\ [][\/ DOMAIN idem \subseteq DOMAIN idem'
          \/ idem' = purge_idempotency_older_than(
                         idem, settings.IDEMPOTENCY_TTL_SECONDS).table]_vars

\* A purge has removed the expired entry of K1 and kept the live entry of K2.
C21_PurgedOneKeptOne ==
    /\ "K1" \in DOMAIN first
    /\ first["K1"].status = 200
    /\ "K1" \notin DOMAIN idem
    /\ "K2" \in DOMAIN idem
    /\ now - idem["K2"].created_at = settings.IDEMPOTENCY_TTL_SECONDS

(***************************************************************************)
(* Bulk requests over the limit: BULK_MAX_ITEMS is one less than the       *)
(* longest request.                                                        *)
(***************************************************************************)
InitCap ==
    /\ settings \in {[s EXCEPT !.BULK_MAX_ITEMS = MaxBulkLen - 1] : s \in SettingsSet}
    /\ contract \in Contracts
    /\ now = 0
    /\ InitStore
    /\ first = [k \in {} |-> NoResponse]
    /\ state = SyncStateInit
    /\ worker = WorkerIdle
    /\ admin = AdminIdle
    /\ loops = NoLoops
    /\ app = AppServing
    /\ limiter = NoBuckets
    /\ handlers = NoHandlers

NextCap == \E rs \in Seqs(BulkInputs, MaxBulkLen), k \in IdemKeys : BulkAppend(rs, k)

SpecCap == InitCap /\ [][NextCap]_vars

\* C22: a bulk append of more than BULK_MAX_ITEMS records is rejected as a whole
\* (413) before any processing: rows, dead letters, the remote sheet and the
\* idempotency entries stay as they are, no remote write is attempted and a live
\* entry under the request's key is not replayed; a request of exactly
\* BULK_MAX_ITEMS records is processed.
C22_OverLimitRejectedWhole ==
    \A rs \in BulkRequests, k \in IdemKeys : \A oks \in Outcomes(Len(rs)) :
        LET r == bulk_append(rs, k, oks)
        IN /\ Len(rs) > settings.BULK_MAX_ITEMS =>
                /\ r.status = 413
                /\ r.rows = rows /\ r.dlq = dlq /\ r.remote = remote /\ r.idem = idem
                /\ ~r.replayed /\ ~r.called
           /\ Len(rs) = settings.BULK_MAX_ITEMS =>
                /\ r.status = 200
                /\ r.replayed \/ Len(r.body.accepted) + Len(r.body.rejected) = Len(rs)

\* A live entry is stored under K1, rows and dead letters exist: an over-limit
\* request with K1 meets an entry it must not replay.
C22_LiveEntryMeetsOverLimit ==
    /\ "K1" \in DOMAIN idem
    /\ get_idempotency("K1", settings.IDEMPOTENCY_TTL_SECONDS) # NoResponse
    /\ rows # <<>>
    /\ dlq # <<>>

(***************************************************************************)
(* Bulk appends of every input, two records with one key among them.       *)
(***************************************************************************)
AllBulkRequests == Seqs(Inputs, MaxBulkLen)

NextBulk == \E rs \in AllBulkRequests, k \in IdemKeys : BulkAppend(rs, k)

SpecBulk == Init /\ [][NextBulk]_vars

\* The 1-based positions of the records a bulk response rejected.
RejectedAt(r) == {r.body.rejected[j].index + 1 : j \in DOMAIN r.body.rejected}

\* The dead letters a request added that are not failed write-backs.
RejectionLetters(r) ==
    SelectSeq(SubSeq(r.dlq, Len(dlq) + 1, Len(r.dlq)),
              LAMBDA e : e.reason # <<"write_failed">>)

\* The response's index lists are disjoint and cover the request, count is the
\* number of accepted indices; the request added exactly one dead letter per
\* rejected record, holding the record and the reason the response gives; every
\* row the request added or changed holds an accepted record.
BulkShape(rs, r) ==
    LET A == AcceptedAt(r)
        R == RejectedAt(r)
        letters == RejectionLetters(r)
    IN /\ A \cap R = {}
       /\ A \cup R = 1..Len(rs)
       /\ Cardinality(A) = Len(r.body.accepted)
       /\ Cardinality(R) = Len(r.body.rejected)
       /\ r.body.count = Len(r.body.accepted)
       /\ SubSeq(r.dlq, 1, Len(dlq)) = dlq
       /\ Len(letters) = Len(r.body.rejected)
       /\ \A j \in DOMAIN letters :
            /\ letters[j].data = rs[r.body.rejected[j].index + 1]
            /\ letters[j].reason = r.body.rejected[j].reason
       /\ \A i \in DOMAIN r.rows :
            (i > Len(rows) \/ r.rows[i] # rows[i]) =>
                \E n \in A : r.rows[i].data = Cleaned(rs[n])

\* Accepted record n is in the store after the request: a record with a key in
\* the one row of that key unless a later accepted record of the request has the
\* key, a record without a key in a row of its own.
Upserted(rs, r, n) ==
    LET rec == Cleaned(rs[n])
        keyed == settings.KEY_COLUMN # "" /\ KeyOf(rec) # None
        same == {m \in AcceptedAt(r) : Cleaned(rs[m]) = rec}
        last == CHOOSE m \in AcceptedAt(r) :
                    /\ KeyOf(Cleaned(rs[m])) = KeyOf(rec)
                    /\ \A o \in AcceptedAt(r) :
                         KeyOf(Cleaned(rs[o])) = KeyOf(rec) => o <= m
    IN IF keyed
       THEN HoldsLatest(rows, r.rows, StrOf(KeyOf(rec)), Cleaned(rs[last]))
       ELSE Cardinality({i \in (Len(rows) + 1)..Len(r.rows) :
                            r.rows[i].data = rec /\ r.rows[i].key = NullKey})
              = Cardinality(same)

\* C23 as stated: for every bulk append of n records within the limit, accepted
\* and rejected are disjoint and cover 0..n-1, count is the number of accepted
\* indices, every rejected record has exactly one dead-letter entry with its
\* reason and no row, and every accepted record is in the row store.
C23_EveryAcceptedInStore ==
    \A rs \in AllBulkRequests, k \in IdemKeys : \A oks \in Outcomes(Len(rs)) :
        LET r == bulk_append(rs, k, oks)
        IN (~r.replayed /\ r.status = 200) =>
              /\ BulkShape(rs, r)
              /\ \A n \in AcceptedAt(r) : StoredLocally(r.rows, Cleaned(rs[n]))

\* C23: for every executed bulk append of n records within the limit, accepted
\* and rejected are disjoint and cover 0..n-1, count is the number of accepted
\* indices, every rejected record has exactly one dead-letter entry with its
\* reason and no row, and every accepted record is upserted: of the accepted
\* records with one key the store holds the last, in the one row of that key.
C23_EveryAcceptedUpserted ==
    \A rs \in AllBulkRequests, k \in IdemKeys : \A oks \in Outcomes(Len(rs)) :
        LET r == bulk_append(rs, k, oks)
        IN (~r.replayed /\ r.status = 200) =>
              /\ BulkShape(rs, r)
              /\ \A n \in AcceptedAt(r) : Upserted(rs, r, n)

\* A bulk append under K1 accepted both of its records, which share a key: the
\* store holds one row, with the second record.
C23_TwoAcceptedOneRow ==
    /\ settings.KEY_COLUMN # ""
    /\ "K1" \in DOMAIN idem
    /\ idem["K1"].response.accepted = <<0, 1>>
    /\ Len(rows) = 1
    /\ rows[1].data = Cleaned(RowA2)

(***************************************************************************)
(* Every way into the row store: append, POST /rows (main.py add_row) and  *)
(* the pull of GET /sync (main.py sync, _sync_once_sync).                  *)
(***************************************************************************)
\* POST /rows: insert_rows([row]).
add_row(row) == insert_rows(<<row>>, rows, settings.KEY_COLUMN, now)

\* What fetch_sheet may return: the sheet is edited by hand.
Sheets == {<<RowA1>>, <<RowBad>>}

\* _sync_once_sync with credentials: rows = fetch_sheet(creds); insert_rows(rows).
sync(fetched) == insert_rows(fetched, rows, settings.KEY_COLUMN, now)

PostRows(row) ==
    /\ Len(rows) < MaxRows
    /\ rows' = add_row(row)
    /\ UNCHANGED <<settings, contract, now, idem, dlq, remote, first, state, worker, bgVars>>

ManualSync(fetched) ==
    /\ settings.CREDS
    /\ Len(rows) < MaxRows
    /\ rows' = sync(fetched)
    /\ UNCHANGED <<settings, contract, now, idem, dlq, remote, first, state, worker, bgVars>>

NextIngest ==
    \/ \E row \in Inputs : Append_(row, NoIdemKey)
    \/ \E row \in Inputs : PostRows(row)
    \/ \E fetched \in Sheets : ManualSync(fetched)

SpecIngest == Init /\ [][NextIngest]_vars

\* C24: no operation puts a record into the row store that has not passed the
\* Validator against the active contract: every stored record is one the
\* contract accepts.
C24_StoredRowsPassedValidator ==
    \A i \in DOMAIN rows : validate_row(rows[i].data, contract).ok

(***************************************************************************)
(* The contract is replaced (main.py admin_set_schema, schema.py load)     *)
(* while validate_row calls are in flight, one column a step.              *)
(***************************************************************************)
NValidators == 2

ContractV1 ==
    <<[name |-> "id", type |-> "string", required |-> TRUE],
      [name |-> "val", type |-> "integer", required |-> TRUE]>>

ContractV2 ==
    <<[name |-> "id", type |-> "integer", required |-> TRUE],
      [name |-> "val", type |-> "string", required |-> TRUE]>>

SwapContracts == {NoContract, ContractV1, ContractV2}

NoResult == [ok |-> FALSE, cleaned |-> EmptyDict, reason |-> <<"pending">>]

\* A handler outside validate_row; seen: the contracts active during its last call.
ValidatorIdle ==
    [pc |-> "idle", row |-> EmptyDict, contract |-> NoContract, i |-> 1,
     clean |-> EmptyDict, out |-> NoResult, seen |-> {}]

\* contract = get(); if not contract: return True, row, None
ValidateEnter(row, current) ==
    IF current = NoContract
    THEN [ValidatorIdle EXCEPT !.pc = "done", !.row = row, !.seen = {current},
                               !.out = [ok |-> TRUE, cleaned |-> row, reason |-> NoReason]]
    ELSE [ValidatorIdle EXCEPT !.pc = "columns", !.row = row, !.contract = current,
                               !.seen = {current}]

\* A loop that looks its column up in schema._contract at every turn.
ValidateColumnReread(hd, current) ==
    IF current = NoContract \/ hd.i > Len(current)
    THEN [hd EXCEPT !.pc = "done",
                    !.out = [ok |-> TRUE, reason |-> NoReason,
                             cleaned |-> [k \in DOMAIN hd.clean \cup DOMAIN hd.row |->
                                            IF k \in DOMAIN hd.clean THEN hd.clean[k]
                                            ELSE hd.row[k]]]]
    ELSE LET column == current[hd.i]
             value == Get(hd.row, column.name)
             c == Coerce(value, column.type)
         IN IF value = None /\ column.required
            THEN [hd EXCEPT !.pc = "done",
                            !.out = [ok |-> FALSE, cleaned |-> hd.row,
                                     reason |-> <<"missing_required:", column.name>>]]
            ELSE IF value # None /\ ~c.ok
            THEN [hd EXCEPT !.pc = "done",
                            !.out = [ok |-> FALSE, cleaned |-> hd.row,
                                     reason |-> <<"type_error:", column.name, ":",
                                                  column.type>>]]
            ELSE [hd EXCEPT !.i = @ + 1,
                            !.clean = [k \in DOMAIN hd.clean \cup {column.name} |->
                                         IF k # column.name THEN hd.clean[k]
                                         ELSE IF value = None THEN None ELSE c.val]]

\* One turn of `for name, column in contract.columns.items()` on the contract the
\* call got at its start, or, the columns done, the copy of the other keys and
\* the return.
ValidateColumn(hd, current) ==
    IF hd.i > Len(hd.contract)
    THEN [hd EXCEPT !.pc = "done",
                    !.out = [ok |-> TRUE, reason |-> NoReason,
                             cleaned |-> [k \in DOMAIN hd.clean \cup DOMAIN hd.row |->
                                            IF k \in DOMAIN hd.clean THEN hd.clean[k]
                                            ELSE hd.row[k]]]]
    ELSE LET column == hd.contract[hd.i]
             value == Get(hd.row, column.name)
             c == Coerce(value, column.type)
         IN IF value = None /\ column.required
            THEN [hd EXCEPT !.pc = "done",
                            !.out = [ok |-> FALSE, cleaned |-> hd.row,
                                     reason |-> <<"missing_required:", column.name>>]]
            ELSE IF value # None /\ ~c.ok
            THEN [hd EXCEPT !.pc = "done",
                            !.out = [ok |-> FALSE, cleaned |-> hd.row,
                                     reason |-> <<"type_error:", column.name, ":",
                                                  column.type>>]]
            ELSE [hd EXCEPT !.i = @ + 1,
                            !.clean = [k \in DOMAIN hd.clean \cup {column.name} |->
                                         IF k # column.name THEN hd.clean[k]
                                         ELSE IF value = None THEN None ELSE c.val]]

NotHandlers ==
    <<settings, now, rows, idem, dlq, remote, first, state, worker, admin, loops, app,
      limiter>>

ValidateBegin(h, row) ==
    /\ handlers[h].pc = "idle"
    /\ handlers' = [handlers EXCEPT ![h] = ValidateEnter(row, contract)]
    /\ UNCHANGED <<contract, NotHandlers>>

ValidateTurn(h) ==
    /\ handlers[h].pc = "columns"
    /\ handlers' = [handlers EXCEPT ![h] = ValidateColumn(handlers[h], contract)]
    /\ UNCHANGED <<contract, NotHandlers>>

ValidateReturn(h) ==
    /\ handlers[h].pc = "done"
    /\ handlers' = [handlers EXCEPT ![h] = ValidatorIdle]
    /\ UNCHANGED <<contract, NotHandlers>>

\* POST /admin/schema: load binds schema._contract to the contract it parsed.
AdminSetSchema(c) ==
    /\ c # contract
    /\ contract' = c
    /\ handlers' = [h \in DOMAIN handlers |->
                      IF handlers[h].pc = "columns"
                      THEN [handlers[h] EXCEPT !.seen = @ \cup {c}]
                      ELSE handlers[h]]
    /\ UNCHANGED NotHandlers

InitSwap ==
    /\ settings \in {s \in SettingsSet : s.KEY_COLUMN = "" /\ ~s.ALLOW_WRITE_BACK}
    /\ contract \in SwapContracts
    /\ now = 0
    /\ InitStore
    /\ first = [k \in {} |-> NoResponse]
    /\ state = SyncStateInit
    /\ worker = WorkerIdle
    /\ admin = AdminIdle
    /\ loops = NoLoops
    /\ app = AppServing
    /\ limiter = NoBuckets
    /\ handlers = [h \in 1..NValidators |-> ValidatorIdle]

NextSwap ==
    \/ \E h \in DOMAIN handlers, row \in Inputs : ValidateBegin(h, row)
    \/ \E h \in DOMAIN handlers : ValidateTurn(h)
    \/ \E h \in DOMAIN handlers : ValidateReturn(h)
    \/ \E c \in SwapContracts : AdminSetSchema(c)

SpecSwap == InitSwap /\ [][NextSwap]_vars

\* C25: when the contract is replaced while validations are in flight, every
\* validate_row call returns what one single contract version gives for its row,
\* one that was active during the call, never a mixture of two.
C25_OneContractPerValidation ==
    \A h \in DOMAIN handlers :
        handlers[h].pc = "done" =>
            \E c \in handlers[h].seen : handlers[h].out = validate_row(handlers[h].row, c)

\* A validation has ended during which the contract was replaced by one that
\* judges its row otherwise.
C25_SwappedInFlight ==
    \E h \in DOMAIN handlers :
        /\ handlers[h].pc = "done"
        /\ handlers[h].seen = {ContractV1, ContractV2}
        /\ validate_row(handlers[h].row, ContractV1).ok
             # validate_row(handlers[h].row, ContractV2).ok

(***************************************************************************)
(* The worker threads.  Every endpoint of main.py is a plain `def`, which  *)
(* FastAPI runs through anyio.to_thread.run_sync; blocking.to_thread, the  *)
(* retry worker's way into a thread, is anyio.to_thread.run_sync too.      *)
(* Both take a token of anyio's one default limiter for the whole call.    *)
(***************************************************************************)
NRequests == 2

\* The tokens of the default limiter (40 in anyio): more than the worker's
\* semaphore admits, so the worker alone never takes them all.
PoolTokens == MaxConcurrency + 1

Endpoints == {"health", "append"}

RequestIdle == [pc |-> "idle", endpoint |-> "health"]

\* Tokens taken: one per endpoint function running, one per run_one_sync running.
PoolHeld == Cardinality({h \in DOMAIN handlers : handlers[h].pc = "running"}) + InFlight(worker)

\* A request reaches its route: run_in_threadpool(endpoint) asks for a token.
RequestArrives(h, endpoint) ==
    /\ handlers[h].pc = "idle"
    /\ handlers' = [handlers EXCEPT ![h] = [pc |-> "waiting", endpoint |-> endpoint]]
    /\ UNCHANGED <<contract, NotHandlers>>

\* The limiter has a token: the endpoint function starts in a worker thread.
RequestRuns(h) ==
    /\ handlers[h].pc = "waiting"
    /\ PoolHeld < PoolTokens
    /\ handlers' = [handlers EXCEPT ![h].pc = "running"]
    /\ UNCHANGED <<contract, NotHandlers>>

\* The endpoint function returns and its token goes back.
RequestReturns(h) ==
    /\ handlers[h].pc = "running"
    /\ handlers' = [handlers EXCEPT ![h] = RequestIdle]
    /\ UNCHANGED <<contract, NotHandlers>>

\* to_thread(dlq_fetch, batch) needs a token.
PoolRetryFetch == PoolHeld < PoolTokens /\ RetryFetch

\* to_thread(run_one_sync, row), behind the semaphore, needs a token.
PoolRetryStart(i) == PoolHeld < PoolTokens /\ RetryStart(i)

\* to_thread(dlq_delete, ok_ids) needs a token.
PoolRetryDelete == PoolHeld < PoolTokens /\ RetryDelete

InitPool ==
    /\ settings \in {s \in SettingsSet : s.KEY_COLUMN = "" /\ s.CREDS /\ s.ALLOW_WRITE_BACK}
    /\ contract = NoContract
    /\ now = 0
    /\ InitStore
    /\ first = [k \in {} |-> NoResponse]
    /\ state = SyncStateInit
    /\ worker \in {[WorkerIdle EXCEPT !.fn = "fail", !.batch = MaxBatch, !.concurrency = c] :
                      c \in 1..MaxConcurrency}
    /\ admin = AdminIdle
    /\ loops = NoLoops
    /\ app = AppServing
    /\ limiter = NoBuckets
    /\ handlers = [h \in 1..NRequests |-> RequestIdle]

NextPool ==
    \/ \E h \in DOMAIN handlers, e \in Endpoints : RequestArrives(h, e)
    \/ \E h \in DOMAIN handlers : RequestRuns(h)
    \/ \E h \in DOMAIN handlers : RequestReturns(h)
    \/ PoolRetryFetch
    \/ \E i \in DOMAIN worker.st : PoolRetryStart(i)
    \/ \E i \in DOMAIN worker.st, ok \in BOOLEAN : RetryFinish(i, ok)
    \/ PoolRetryDelete
    \/ DlqWrite(<<"write_failed">>, RowA1)

SpecPool == InitPool /\ [][NextPool]_vars

\* Somebody holds a token and will give it back.
TokenHeld == PoolHeld > 0

\* C26: no deadlock is reachable (whoever waits for a token waits for a holder
\* that returns it), and a health check never waits while a redelivery is in
\* progress: the retry worker holds nothing a request handler acquires.
C26_RequestsNeverWaitForRetry ==
    /\ \A h \in DOMAIN handlers :
         handlers[h].pc = "waiting" => PoolHeld < PoolTokens \/ TokenHeld
    /\ \A h \in DOMAIN handlers :
         (handlers[h].pc = "waiting" /\ handlers[h].endpoint = "health") =>
             ~(PoolHeld = PoolTokens /\ InFlight(worker) > 0)

(***************************************************************************)
(* Appends in parallel threads: the look-up of the Idempotency-Key         *)
(* (main.py 224-229) and the rest of the handler (main.py 231-289) are     *)
(* separate statements with no lock around them.                           *)
(***************************************************************************)
NAppends == 2

RaceKeys == {"K1", "K2"}

AppendIdle ==
    [pc |-> "idle", row |-> EmptyDict, idem_key |-> NoIdemKey, body |-> NoResponse,
     replayed |-> FALSE, inserted |-> 0, called |-> FALSE]

\* append from `allow_write = ...` on, the look-up having found nothing: what
\* append does without a key, with the key in the body and the body saved under it.
AppendAfterMiss(row, idem_key, remote_ok) ==
    LET r == append(row, NoIdemKey, remote_ok)
        out == [r.body EXCEPT !.idempotency_key = OrNone(idem_key)]
    IN IF r.status = 422 THEN r
       ELSE [r EXCEPT !.body = out, !.idem = SaveIf(idem_key, out)]

\* if idem_key: cached = get_idempotency(idem_key, ttl); if cached is not None: return cached
AppendLookup(h, row, idem_key) ==
    /\ handlers[h].pc = "idle"
    /\ LET cached == get_idempotency(idem_key, settings.IDEMPOTENCY_TTL_SECONDS)
       IN handlers' =
            [handlers EXCEPT ![h] =
               IF cached # NoResponse
               THEN [AppendIdle EXCEPT !.pc = "done", !.row = row, !.idem_key = idem_key,
                                       !.body = cached, !.replayed = TRUE]
               ELSE [AppendIdle EXCEPT !.pc = "missed", !.row = row, !.idem_key = idem_key]]
    /\ UNCHANGED <<contract, NotHandlers>>

\* The handler goes on: validation, local upsert, write-back, save_idempotency.
AppendGoesOn(h) ==
    /\ handlers[h].pc = "missed"
    /\ \E remote_ok \in IF WritesBack THEN BOOLEAN ELSE {TRUE} :
         LET r == AppendAfterMiss(handlers[h].row, handlers[h].idem_key, remote_ok)
         IN /\ r.called \/ remote_ok
            /\ Len(r.rows) <= MaxRows
            /\ Len(r.dlq) <= MaxDlq
            /\ Len(r.remote) <= MaxRemote
            /\ rows' = r.rows
            /\ idem' = r.idem
            /\ dlq' = r.dlq
            /\ remote' = r.remote
            /\ handlers' = [handlers EXCEPT ![h].pc = "done", ![h].body = r.body,
                                            ![h].inserted = Len(r.rows) - Len(rows),
                                            ![h].called = r.called]
    /\ UNCHANGED <<settings, contract, now, first, state, worker, admin, loops, app, limiter>>

\* The response is sent.
AppendReturns(h) ==
    /\ handlers[h].pc = "done"
    /\ handlers' = [handlers EXCEPT ![h] = AppendIdle]
    /\ UNCHANGED <<contract, NotHandlers>>

InitRace ==
    /\ settings \in SettingsSet
    /\ contract = NoContract
    /\ now = 0
    /\ InitStore
    /\ first = [k \in {} |-> NoResponse]
    /\ state = SyncStateInit
    /\ worker = WorkerIdle
    /\ admin = AdminIdle
    /\ loops = NoLoops
    /\ app = AppServing
    /\ limiter = NoBuckets
    /\ handlers = [h \in 1..NAppends |-> AppendIdle]

NextRace ==
    \/ \E h \in DOMAIN handlers, k \in RaceKeys : AppendLookup(h, RowA1, k)
    \/ \E h \in DOMAIN handlers : AppendGoesOn(h)
    \/ \E h \in DOMAIN handlers : AppendReturns(h)

SpecRace == InitRace /\ [][NextRace]_vars

\* C27: two appends with the same Idempotency-Key, the second started before the
\* first saved its response, both answered: the two make one local insert and
\* at most one remote write between them, and the callers get the same body.
C27_ConcurrentSameKeyOnce ==
    \A h \in DOMAIN handlers, g \in DOMAIN handlers :
        (/\ h # g
         /\ handlers[h].pc = "done" /\ handlers[g].pc = "done"
         /\ handlers[h].idem_key = handlers[g].idem_key
         /\ ~handlers[h].replayed /\ ~handlers[g].replayed) =>
            /\ handlers[h].inserted + handlers[g].inserted = 1
            /\ ~(handlers[h].called /\ handlers[g].called)
            /\ handlers[h].body = handlers[g].body

(***************************************************************************)
(* run_periodic under a running clock and any backoff_max >= 0             *)
(* (SYNC_BACKOFF_MAX_SECONDS is an unconstrained int, config.py 29).       *)
(***************************************************************************)
InitBackoff ==
    /\ settings \in {s \in SettingsSet : s.KEY_COLUMN = "" /\ s.ALLOW_WRITE_BACK}
    /\ contract = NoContract
    /\ now = 0
    /\ InitStore
    /\ first = [k \in {} |-> NoResponse]
    /\ state = SyncStateInit
    /\ worker = WorkerIdle
    /\ admin = AdminIdle
    /\ loops \in {[l \in 1..NLoops |-> LoopStart(m)] : m \in 0..BackoffMax}
    /\ app = AppServing
    /\ limiter = NoBuckets
    /\ handlers = NoHandlers

NextBackoff ==
    \/ NextSync
    \/ TimePasses

SpecBackoff == InitBackoff /\ [][NextBackoff]_vars

\* The pull of loop l ends in this step.
PullEnds(l) == loops[l].thread = "pulling" /\ loops'[l].thread = "none"

\* The tick of loop l, which set running, ends in this step.
TickEnds(l) == loops[l].pc \in {"task", "backoff"} /\ loops'[l].pc \in {"sleep", "exited"}

\* C28: every scheduled pull that runs to its end increments exactly one
\* counter, total_runs with last_error cleared when it succeeded (it inserted
\* the fetched rows), total_errors with last_error set when it failed; however
\* the tick ends, last_finished is recorded and running is false, and running is
\* never true outside a tick.
C28_OneCounterPerPull ==
    /\ [][\A l \in DOMAIN loops :
            /\ PullEnds(l) =>
                 \/ /\ state'.total_runs = state.total_runs + 1
                    /\ state'.total_errors = state.total_errors
                    /\ state'.last_error = "None"
                 \/ /\ rows' = rows
                    /\ state'.total_errors = state.total_errors + 1
                    /\ state'.total_runs = state.total_runs
                    /\ state'.last_error # "None"
            /\ TickEnds(l) => ~state'.running /\ state'.last_finished = now]_vars
    /\ [](state.running => \E l \in DOMAIN loops : loops[l].pc \in {"task", "backoff"})

RECURSIVE Pow2(_)
Pow2(n) == IF n = 0 THEN 1 ELSE 2 * Pow2(n - 1)

\* Loops in their backoff sleep after a failed pull.
BackingOff == {l \in DOMAIN loops : loops[l].pc = "backoff"}

\* C29 as stated: after the k-th consecutive failed pull the loop sleeps
\* min(2^(k-1), backoff_max) seconds, never more than backoff_max, and after a
\* successful pull the next failure sleeps 1 second.
C29_FirstFailureSleepsOne ==
    \A l \in BackingOff :
        /\ loops[l].delay = Min(Pow2(loops[l].fails - 1), loops[l].backoff_max)
        /\ loops[l].delay <= loops[l].backoff_max
        /\ loops[l].fails = 1 => loops[l].delay = 1

\* C29: after the k-th consecutive failed pull the loop sleeps
\* min(2^(k-1), backoff_max) seconds inside the tick (running stays true), never
\* more than backoff_max for any backoff_max >= 0; a successful pull puts the
\* backoff back to 1, so the next failure sleeps min(1, backoff_max): 1 second
\* unless backoff_max is 0.
C29_BackoffSleep ==
    /\ \A l \in BackingOff :
         /\ loops[l].fails >= 1
         /\ loops[l].delay = Min(Pow2(loops[l].fails - 1), loops[l].backoff_max)
         /\ loops[l].delay <= loops[l].backoff_max
         /\ loops[l].fails = 1 => loops[l].delay = Min(1, loops[l].backoff_max)
         /\ state.running
    /\ \A l \in DOMAIN loops : loops[l].fails = 0 => loops[l].backoff = 1

\* With backoff_max = 0 a loop sleeps 0 seconds after its first failure since a
\* successful pull.
C29_ZeroSleepAfterSuccess ==
    \E l \in BackingOff :
        /\ loops[l].fails = 1
        /\ loops[l].backoff_max = 0
        /\ loops[l].delay = 0
        /\ state.total_runs >= 1
        /\ state.total_errors >= 2

(***************************************************************************)
(* The semaphore of retry_dlq (scheduler.py 62, 70-80).                    *)
(***************************************************************************)
Attempting == {i \in DOMAIN worker.st : worker.st[i] = "inflight"}

Queued == {i \in DOMAIN worker.st : worker.st[i] = "queued"}

\* The cycle ends in this step: gather has returned and dlq_delete has run.
CycleEnds == worker.pc = "gather" /\ worker'.pc = "sleep"

\* C30: at every moment at most `concurrency` redelivery attempts are in flight;
\* an entry queued behind the semaphore is never stuck (an attempt is in flight
\* or one can start), and when the cycle ends every entry of the fetched batch
\* has been attempted, exactly once.
C30_CapAndNoneDropped ==
    /\ [](Cardinality(Attempting) <= worker.concurrency)
    /\ [](Queued # {} =>
            Attempting # {} \/ ENABLED (\E i \in DOMAIN worker.st : RetryStart(i)))
    /\ [][CycleEnds =>
            \A i \in DOMAIN worker.rows :
                worker.st[i] = "done" /\ worker.tries[i] = 1]_vars

\* A batch larger than the cap has been attempted in full.
C30_BatchBeyondCapAttempted ==
    /\ worker.pc = "gather"
    /\ Len(worker.rows) = MaxBatch
    /\ worker.concurrency < Len(worker.rows)
    /\ \A i \in DOMAIN worker.rows : worker.st[i] = "done" /\ worker.tries[i] = 1

(***************************************************************************)
(* One cycle of retry_dlq: what it fetches, what it attempts, when it      *)
(* deletes.                                                                *)
(***************************************************************************)
Ids(table) == {table[i].id : i \in DOMAIN table}

\* The cycle starts in this step: dlq_fetch returned a batch.
CycleStarts == worker.pc = "sleep" /\ worker'.pc = "gather"

\* C31: a cycle fetches the min(batch, size of the queue) entries with the
\* smallest ids, in id order; it attempts each of them at most once while it
\* runs and exactly once by its end; a delivery to the remote is that of a
\* fetched entry in flight; and entries leave the queue only in the cycle's
\* last step, all attempts resolved, and they are the succeeded ids.
C31_CycleFetchesOldestDeletesLast ==
    /\ [][CycleStarts =>
            /\ Len(worker'.rows) = Min(worker.batch, Len(dlq))
            /\ Range(worker'.rows) \subseteq Range(dlq)
            /\ \A i \in DOMAIN worker'.rows, j \in DOMAIN worker'.rows :
                 i < j => worker'.rows[i].id < worker'.rows[j].id
            /\ \A e \in Range(dlq) \ Range(worker'.rows), f \in Range(worker'.rows) :
                 f.id < e.id]_vars
    /\ [](\A i \in DOMAIN worker.tries : worker.tries[i] <= 1)
    /\ [][remote' # remote =>
            \E i \in Attempting :
                /\ remote' = append_row(remote, worker.rows[i].data)
                /\ worker'.st[i] = "done"]_vars
    /\ [][Ids(dlq) \ Ids(dlq') # {} =>
            /\ CycleEnds
            /\ \A i \in DOMAIN worker.rows : worker.st[i] = "done" /\ worker.tries[i] = 1
            /\ Ids(dlq) \ Ids(dlq') = Range(worker.ok_ids) \cap Ids(dlq)
            /\ Range(worker.ok_ids) \subseteq Ids(worker.rows)]_vars

\* A cycle is at its end with a batch smaller than the queue: a full batch of
\* two or more fetched, a newer entry left behind, some attempts succeeded and
\* some failed.
C31_PartialBatchResolved ==
    /\ worker.pc = "gather"
    /\ Len(worker.rows) = worker.batch
    /\ worker.batch >= 2
    /\ Len(dlq) > Len(worker.rows)
    /\ \A i \in DOMAIN worker.rows : worker.st[i] = "done"
    /\ worker.ok_ids # <<>>
    /\ Len(worker.ok_ids) < Len(worker.rows)

(***************************************************************************)
(* validate_row on its own: records with absent, null, ill-typed and       *)
(* extra columns against contracts with required and optional columns.     *)
(***************************************************************************)
RowTwoBad == [id |-> PyStr("a"), val |-> PyStr("x")]

RowNull == [id |-> PyStr("a"), val |-> None]

RowExtra == [id |-> PyInt("7"), val |-> PyStr("2"), note |-> PyStr("n")]

ValidateRows == {RowA1, RowNoKey, RowTwoBad, RowNull, RowExtra}

ContractOptional ==
    <<[name |-> "id", type |-> "string", required |-> FALSE],
      [name |-> "val", type |-> "integer", required |-> TRUE]>>

ContractIntegers ==
    <<[name |-> "id", type |-> "integer", required |-> TRUE],
      [name |-> "val", type |-> "integer", required |-> TRUE]>>

ValidateContracts == {NoContract, ValContract, ContractOptional, ContractIntegers}

InitValidate ==
    /\ settings \in {s \in SettingsSet : s.KEY_COLUMN = "" /\ ~s.ALLOW_WRITE_BACK}
    /\ contract \in ValidateContracts
    /\ now = 0
    /\ InitStore
    /\ first = [k \in {} |-> NoResponse]
    /\ state = SyncStateInit
    /\ worker = WorkerIdle
    /\ admin = AdminIdle
    /\ loops = NoLoops
    /\ app = AppServing
    /\ limiter = NoBuckets
    /\ handlers = [h \in 1..NValidators |-> ValidatorIdle]

NextValidate ==
    \/ \E h \in DOMAIN handlers, row \in ValidateRows : ValidateBegin(h, row)
    \/ \E h \in DOMAIN handlers : ValidateTurn(h)
    \/ \E h \in DOMAIN handlers : ValidateReturn(h)

SpecValidate == InitValidate /\ [][NextValidate]_vars

\* Column i of contract c fails on row: required and absent or null, or present
\* and not coercible to the column's type.
FailsOn(row, c, i) ==
    LET value == Get(row, c[i].name)
    IN IF value = None THEN c[i].required ELSE ~Coerce(value, c[i].type).ok

ReasonOn(row, c, i) ==
    IF Get(row, c[i].name) = None THEN <<"missing_required:", c[i].name>>
    ELSE <<"type_error:", c[i].name, ":", c[i].type>>

ColumnNames(c) == {c[i].name : i \in DOMAIN c}

\* out is what the claim says validate_row returns for row under contract c.
AsContracted(row, c, out) ==
    LET failing == {i \in DOMAIN c : FailsOn(row, c, i)}
    IN IF c = NoContract
       THEN out = [ok |-> TRUE, cleaned |-> row, reason |-> NoReason]
       ELSE IF failing # {}
       THEN LET f == CHOOSE i \in failing : \A j \in failing : i <= j
            IN out = [ok |-> FALSE, cleaned |-> row, reason |-> ReasonOn(row, c, f)]
       ELSE /\ out.ok
            /\ out.reason = NoReason
            /\ DOMAIN out.cleaned = DOMAIN row \cup ColumnNames(c)
            /\ \A i \in DOMAIN c :
                 out.cleaned[c[i].name] =
                    IF Get(row, c[i].name) = None THEN None
                    ELSE Coerce(row[c[i].name], c[i].type).val
            /\ \A k \in DOMAIN row \ ColumnNames(c) : out.cleaned[k] = row[k]

\* C32: validate_row goes through the contract's columns in contract order and
\* stops at the first failing one, returning (false, the original record,
\* missing_required:<col> or type_error:<col>:<type>); if none fails it returns
\* ok with every contract column present (null for an absent optional one,
\* coerced otherwise) and every other column as it came; without a contract the
\* record passes unchanged.  Held by every finished call and by the function
\* the write path applies.
C32_FirstFailingColumnWins ==
    \A h \in DOMAIN handlers :
        handlers[h].pc = "done" =>
            /\ AsContracted(handlers[h].row, contract, handlers[h].out)
            /\ AsContracted(handlers[h].row, contract,
                            validate_row(handlers[h].row, contract))

\* A record with two failing columns was refused for the first; another call
\* filled an absent optional column with null and passed an extra column on.
C32_TwoFailingFirstReported ==
    \E h \in DOMAIN handlers :
        /\ handlers[h].pc = "done"
        /\ handlers[h].row = RowTwoBad
        /\ contract = ContractIntegers
        /\ handlers[h].out.reason = <<"type_error:", "id", ":", "integer">>

(***************************************************************************)
(* Duplicate detection (store.py find_duplicates) over what the write      *)
(* operations leave, one operation at a time.                              *)
(***************************************************************************)
\* select key, count(key) group by key having count(key) > 1, null keys dropped.
find_duplicates(table, key_column) ==
    IF key_column = "" THEN {}
    ELSE {[key |-> k, count |-> Cardinality({i \in DOMAIN table : table[i].key = k})] :
            k \in {table[i].key : i \in {j \in DOMAIN table :
                     /\ table[j].key # NullKey
                     /\ Cardinality({m \in DOMAIN table : table[m].key = table[j].key}) > 1}}}

\* C33: with a key column configured and the writes running one at a time, after
\* any sequence of appends, POST /rows and sync pulls no non-null key is held by
\* more than one row: find_duplicates returns nothing.
C33_NoDuplicateKeys ==
    settings.KEY_COLUMN # "" => find_duplicates(rows, settings.KEY_COLUMN) = {}

(***************************************************************************)
(* Cycle after cycle of retry_dlq over a queue in which some entries fail  *)
(* at every redelivery (the remote refuses them) and others would succeed. *)
(***************************************************************************)
\* append_row returns for this entry; for the others it raises every time.
Deliverable(e) == e.data = RowA1

InitStarve ==
    /\ settings \in {s \in SettingsSet : s.KEY_COLUMN = "" /\ s.CREDS}
    /\ contract = NoContract
    /\ now = 0
    /\ rows = <<>>
    /\ idem = [k \in {} |-> NoResponse]
    /\ dlq \in {dlq_write_all(<<>>, <<"write_failed">>, rs) :
                   rs \in Seqs({RowA1, RowBad}, MaxDlqInit)}
    /\ remote = <<>>
    /\ first = [k \in {} |-> NoResponse]
    /\ state = SyncStateInit
    /\ worker \in {[WorkerIdle EXCEPT !.batch = b, !.concurrency = c] :
                      b \in 1..MaxBatch, c \in 1..MaxConcurrency}
    /\ admin = AdminIdle
    /\ loops = NoLoops
    /\ app = AppServing
    /\ limiter = NoBuckets
    /\ handlers = NoHandlers

\* run_one_sync(rows[i]) ends as the entry decides.
Redeliver(i) == RetryFinish(i, Deliverable(worker.rows[i]))

NextStarve ==
    \/ RetryFetch
    \/ \E i \in DOMAIN worker.st : RetryStart(i)
    \/ \E i \in DOMAIN worker.st : Redeliver(i)
    \/ RetryDelete

\* The event loop runs the worker whenever it can go on.
SpecStarve ==
    /\ InitStarve
    /\ [][NextStarve]_vars
    /\ WF_vars(RetryFetch)
    /\ WF_vars(\E i \in DOMAIN worker.st : RetryStart(i))
    /\ WF_vars(\E i \in DOMAIN worker.st : Redeliver(i))
    /\ WF_vars(RetryDelete)

Waiting(id) == \E e \in Range(dlq) : e.id = id /\ Deliverable(e)

\* C34: under fair scheduling of the worker every dead-letter entry whose
\* redelivery would succeed is eventually delivered and removed, whatever older
\* entries keep failing before it.
C34_DeliverableEventuallyRemoved ==
    \A id \in 1..MaxDlqInit : Waiting(id) ~> ~Waiting(id)

(***************************************************************************)
(* The running flag over the positions of the loops.                       *)
(***************************************************************************)
\* The loops inside a tick: awaiting the pull, or in the backoff sleep.
InTick == {l \in DOMAIN loops : loops[l].pc \in {"task", "backoff"}}

\* C35 as stated: running is true exactly while a scheduled pull is executing,
\* false during the interval sleep and during the backoff sleep.
C35_RunningOnlyWhilePulling ==
    /\ BackingOff # {} => ~state.running
    /\ state.running <=> Pulling # {}

\* C35: running is true exactly while a loop is inside a tick, from the flag's
\* setting to the finally clause: while the loop awaits its pull and during the
\* backoff sleep after a failed pull; it is false when every loop is in its
\* interval sleep or has exited.
C35_RunningThroughTick ==
    /\ state.running <=> InTick # {}
    /\ Cardinality(InTick) <= 1
    /\ \A l \in BackingOff : state.running /\ loops[l].thread = "none"

\* A pull has failed and its loop sleeps the backoff: no pull is executing and
\* running is true.
C35_RunningInBackoff ==
    /\ BackingOff # {}
    /\ Pulling = {}
    /\ state.running
    /\ state.total_errors >= 1

(***************************************************************************)
(* GET /sync (main.py sync) beside the scheduler: the endpoint calls       *)
(* _sync_once_sync in its own thread, fetch and insert.                    *)
(***************************************************************************)
ManualIdle == [pc |-> "idle"]

\* The request reaches sync(): _sync_once_sync starts; neither state.running
\* nor scheduler._lock is looked at.
ManualBegin(h) ==
    /\ handlers[h].pc = "idle"
    /\ Len(rows) < MaxRows
    /\ handlers' = [handlers EXCEPT ![h].pc = "pulling"]
    /\ UNCHANGED <<contract, NotHandlers>>

\* _sync_once_sync ends: RuntimeError without credentials (503), fetch_sheet
\* raises, or the fetched rows are inserted.
ManualEnd(h, ok) ==
    /\ handlers[h].pc = "pulling"
    /\ ok => settings.CREDS
    /\ rows' = IF ok THEN sync(SheetRows) ELSE rows
    /\ handlers' = [handlers EXCEPT ![h].pc = "idle"]
    /\ UNCHANGED <<settings, contract, now, idem, dlq, remote, first, state, worker, admin,
                   loops, app, limiter>>

InitManual ==
    /\ settings \in {s \in SettingsSet : s.KEY_COLUMN = "" /\ s.ALLOW_WRITE_BACK}
    /\ contract = NoContract
    /\ now = 0
    /\ InitStore
    /\ first = [k \in {} |-> NoResponse]
    /\ state = SyncStateInit
    /\ worker = WorkerIdle
    /\ admin = AdminIdle
    /\ loops = [l \in 1..NLoops |-> LoopStart(BackoffMax)]
    /\ app = AppServing
    /\ limiter = NoBuckets
    /\ handlers = [h \in 1..NRequests |-> ManualIdle]

NextManual ==
    \/ NextSync
    \/ \E h \in DOMAIN handlers : ManualBegin(h)
    \/ \E h \in DOMAIN handlers, ok \in BOOLEAN : ManualEnd(h, ok)

SpecManual == InitManual /\ [][NextManual]_vars

ManualPulling == {h \in DOMAIN handlers : handlers[h].pc = "pulling"}

\* C36: at most one pull-and-insert is in progress at any time, scheduled and
\* manual ones counted alike: no manual pull runs while the sync state says
\* running.
C36_OnePullAtATime ==
    /\ Cardinality(Pulling) + Cardinality(ManualPulling) <= 1
    /\ ManualPulling # {} => ~state.running

(***************************************************************************)
(* The rate bound: calls allowed in a window against burst + rate * length. *)
(***************************************************************************)
MaxWindowCalls == 4

MaxDelay == 2

\* The delays before the calls of a window after its first: none or some ticks.
Delays == UNION {[1..n -> 0..MaxDelay] : n \in 0..(MaxWindowCalls - 1)}

\* The calls of a window for key: the first now (gap ticks pass inside it if it
\* creates the bucket), the next ones ds[i] ticks after the one before.  Gives
\* the number allowed and the limiter left.
RECURSIVE Window(_, _, _, _)
Window(lim, key, gap, ds) ==
    IF ds = <<>>
    THEN LET r == allow(lim, key, IF key \in DOMAIN lim.buckets THEN 0 ELSE gap)
         IN [allowed |-> IF r.ok THEN 1 ELSE 0, limiter |-> r.limiter]
    ELSE LET before == Window(lim, key, gap, SubSeq(ds, 1, Len(ds) - 1))
             r == allow([before.limiter EXCEPT !.clock = @ + ds[Len(ds)]], key, 0)
         IN [allowed |-> before.allowed + (IF r.ok THEN 1 ELSE 0), limiter |-> r.limiter]

RECURSIVE Sum(_)
Sum(ds) == IF ds = <<>> THEN 0 ELSE Head(ds) + Sum(Tail(ds))

\* C37: for every key, a fixed rate r >= 0 and burst B, whatever calls came
\* before: of the allow calls that fall in a window of length T on a
\* non-decreasing clock at most B + r * T are allowed (tokens and rate counted
\* in units of 1/PerToken).
C37_AllowedWithinBurstPlusRate ==
    limiter.rps >= 0 =>
        \A key \in LimitKeys, gap \in 0..MaxGap, ds \in Delays :
            Window(limiter, key, gap, ds).allowed * PerToken
                <= limiter.burst * PerToken + limiter.rps * Sum(ds)

\* Time has passed, a key has been refilled and used up again: its last call
\* was denied, and a window of calls from here is allowed one call by refill
\* alone.
C37_RefilledAndDenied ==
    /\ limiter.rps = 1
    /\ limiter.burst = 1
    /\ limiter.clock = MaxClock
    /\ limiter.last = [key |-> "hostA", ok |-> FALSE]
    /\ "hostA" \in DOMAIN limiter.buckets
    /\ Window(limiter, "hostA", 0, <<1, 1>>).allowed = 1

(***************************************************************************)
(* The status of a replayed response.                                      *)
(***************************************************************************)
\* C38: a replayed idempotent response reproduces the original response's HTTP
\* status as well as its body: after a first append with key K, a later append
\* with K within the TTL that is answered from the cache carries the first
\* call's status and body (403 when write-back is disabled).
C38_ReplayReproducesStatus ==
    \A k \in DOMAIN first :
        WithinTtl(k) =>
            \A row \in Inputs, ok \in BOOLEAN :
                LET r == append(row, k, ok)
                IN r.replayed => r.status = first[k].status /\ r.body = first[k].body

(***************************************************************************)
(* What the retries redeliver.                                             *)
(***************************************************************************)
\* C39: a record dead-lettered because validation or the strict key check
\* rejected it is never delivered to the remote sheet by the retry worker or by
\* the manual retry: every entry either of them has redelivered was
\* dead-lettered after a failed remote write.
C39_OnlyFailedWritesRedelivered ==
    /\ \A i \in DOMAIN worker.rows :
         WorkerDelivered(worker.rows[i]) => worker.rows[i].reason = <<"write_failed">>
    /\ \A i \in DOMAIN admin.rows :
         AdminDelivered(admin.rows[i]) => admin.rows[i].reason = <<"write_failed">>

(***************************************************************************)
(* Authorization (auth.py) and the endpoints that write to the store.      *)
(***************************************************************************)
\* No Authorization header.
NoAuthorization == [scheme |-> "", token |-> ""]

\* The Authorization headers of a request: a scheme and, after the first blank,
\* a token (header values arrive stripped, so a token is never blank).
Authorizations ==
    {NoAuthorization} \cup
    {[scheme |-> "Bearer", token |-> "dev_token"], [scheme |-> "Bearer", token |-> "wrong"],
     [scheme |-> "Basic", token |-> "dev_token"]}

\* The X-API-Key headers of a request; "" for none.
ApiKeyHeaders == {"", "k1"}

Credentials == [authorization : Authorizations, x_api_key : ApiKeyHeaders]

\* settings.API_TOKEN (stripped) and the keys of settings.API_KEYS.
AuthConfigs == [API_TOKEN : {"dev_token"}, API_KEYS : {{}, {"k1"}}]

\* The dependency let the request through (ok) or raised HTTPException(status).
Passed == [ok |-> TRUE, status |-> 200]

HTTPException(status) == [ok |-> FALSE, status |-> status]

require_write_token(cfg, authorization, x_api_key) ==
    IF authorization.scheme = "Bearer"
    THEN IF authorization.token = cfg.API_TOKEN \/ authorization.token \in cfg.API_KEYS
         THEN Passed
         ELSE HTTPException(403)
    ELSE IF x_api_key # "" /\ x_api_key \in cfg.API_KEYS
    THEN Passed
    ELSE HTTPException(401)

require_auth(cfg, authorization, x_api_key) ==
    LET valid_tokens == IF cfg.API_TOKEN # "" THEN {cfg.API_TOKEN} ELSE {}
    IN IF /\ authorization.scheme = "Bearer"
          /\ authorization.token \in valid_tokens \cup cfg.API_KEYS
       THEN Passed
       ELSE IF x_api_key # "" /\ x_api_key \in cfg.API_KEYS
       THEN Passed
       ELSE HTTPException(401)

\* An endpoint without a dependency.
no_dependency(cfg, authorization, x_api_key) == Passed

\* The request carries one of the configured secrets.
HasValidCredentials(cfg, c) ==
    \/ /\ c.authorization.scheme = "Bearer"
       /\ c.authorization.token \in (cfg.API_KEYS \cup ({cfg.API_TOKEN} \ {""}))
    \/ c.x_api_key \in cfg.API_KEYS

\* No request handled yet, or time passed since the last one.
NoRequest == [endpoint |-> "", valid |-> TRUE]

\* The handler runs if its dependency passed: the store and the sheet it
\* leaves; else the request ends with the dependency's status.
Served(endpoint, c, decision, r) ==
    /\ handlers' = [handlers EXCEPT !.last = [endpoint |-> endpoint,
                                               valid |-> HasValidCredentials(handlers, c)]]
    /\ IF decision.ok
       THEN /\ Len(r.rows) <= MaxRows
            /\ Len(r.dlq) <= MaxDlq
            /\ Len(r.remote) <= MaxRemote
            /\ rows' = r.rows
            /\ idem' = r.idem
            /\ dlq' = r.dlq
            /\ remote' = r.remote
       ELSE UNCHANGED <<rows, idem, dlq, remote>>
    /\ UNCHANGED <<settings, contract, now, first, state, worker, admin, loops, app, limiter>>

\* The for loop of admin_retry_dlq over the fetched entries from index i on;
\* oks[i]: append_row of entry i returns rather than raises.
RECURSIVE AdminRetryFrom(_, _, _, _, _)
AdminRetryFrom(fetched, oks, i, sheet, retried) ==
    IF i > Len(fetched) THEN [remote |-> sheet, retried |-> retried]
    ELSE IF oks[i]
    THEN AdminRetryFrom(fetched, oks, i + 1, append_row(sheet, fetched[i].data),
                        Append(retried, fetched[i].id))
    ELSE AdminRetryFrom(fetched, oks, i + 1, sheet, retried)

\* POST /admin/dlq/retry as one step.
admin_retry_dlq(oks) ==
    LET fetched == dlq_fetch(dlq, AdminBatch)
        t == AdminRetryFrom(fetched, oks, 1, remote, <<>>)
    IN IF ~settings.CREDS
       THEN [rows |-> rows, idem |-> idem, dlq |-> dlq, remote |-> remote]
       ELSE [rows |-> rows, idem |-> idem, remote |-> t.remote,
             dlq |-> IF t.retried # <<>> THEN dlq_delete(dlq, t.retried) ELSE dlq]

AuthAppend(c, row, idem_key) ==
    \E remote_ok \in IF WritesBack THEN BOOLEAN ELSE {TRUE} :
        LET r == append(row, idem_key, remote_ok)
        IN /\ r.called \/ remote_ok
           /\ Served("append", c,
                     require_write_token(handlers, c.authorization, c.x_api_key), r)

AuthBulkAppend(c, rs, idem_key) ==
    Served("bulk_append", c, require_auth(handlers, c.authorization, c.x_api_key),
           bulk_append(rs, idem_key, AllOk(Len(rs))))

AuthAddRow(c, row) ==
    Served("add_row", c, require_write_token(handlers, c.authorization, c.x_api_key),
           [rows |-> add_row(row), idem |-> idem, dlq |-> dlq, remote |-> remote])

AuthAdminRetry(c) ==
    \E oks \in [1..Len(dlq) -> BOOLEAN] :
        Served("admin_retry_dlq", c, require_auth(handlers, c.authorization, c.x_api_key),
               admin_retry_dlq(oks))

AuthPurge(c) ==
    Served("purge_idempotency", c, require_auth(handlers, c.authorization, c.x_api_key),
           [rows |-> rows, dlq |-> dlq, remote |-> remote,
            idem |-> purge_idempotency_older_than(idem,
                                                  settings.IDEMPOTENCY_TTL_SECONDS).table])

\* GET /sync: _sync_once_sync raises without credentials (503).
AuthSync(c, fetched) ==
    Served("sync", c, no_dependency(handlers, c.authorization, c.x_api_key),
           [rows |-> IF settings.CREDS THEN sync(fetched) ELSE rows,
            idem |-> idem, dlq |-> dlq, remote |-> remote])

MaxAuthNow == 1

AuthTimePasses ==
    /\ now < MaxAuthNow
    /\ now' = now + 1
    /\ handlers' = [handlers EXCEPT !.last = NoRequest]
    /\ UNCHANGED <<settings, contract, rows, idem, dlq, remote, first, state, worker,
                   admin, loops, app, limiter>>

InitAuth ==
    /\ settings \in {s \in SettingsSet : s.KEY_COLUMN = "" /\ s.CREDS}
    /\ contract = ValContract
    /\ now = 0
    /\ InitStore
    /\ first = [k \in {} |-> NoResponse]
    /\ state = SyncStateInit
    /\ worker = WorkerIdle
    /\ admin = AdminIdle
    /\ loops = NoLoops
    /\ app = AppServing
    /\ limiter = NoBuckets
    /\ handlers \in {[API_TOKEN |-> cfg.API_TOKEN, API_KEYS |-> cfg.API_KEYS,
                      last |-> NoRequest] : cfg \in AuthConfigs}

NextAuth ==
    \/ \E c \in Credentials, row \in {RowA1, RowBad} : AuthAppend(c, row, "K1")
    \/ \E c \in Credentials : AuthBulkAppend(c, <<RowA1>>, NoIdemKey)
    \/ \E c \in Credentials, row \in {RowA1} : AuthAddRow(c, row)
    \/ \E c \in Credentials : AuthAdminRetry(c)
    \/ \E c \in Credentials : AuthPurge(c)
    \/ \E c \in Credentials, fetched \in Sheets : AuthSync(c, fetched)
    \/ AuthTimePasses

SpecAuth == InitAuth /\ [][NextAuth]_vars

\* C40: every request-triggered operation that inserts, replaces or deletes
\* records of the durable store does so only after a positive authorization
\* decision: a step that handles a request without valid credentials leaves the
\* row store, the dead-letter queue and the idempotency cache unchanged,
\* whichever endpoint the request addresses.
C40_UnauthorizedWritesNothing ==
    [][~handlers'.last.valid => UNCHANGED <<rows, dlq, idem>>]_vars

====
